---- MODULE Spec2Model ----
(***************************************************************************)
(* ApplePS2ElanTrackpad: the byte-arrival path of the Elantech PS/2        *)
(* trackpad driver.  interruptOccurred accumulates bytes into a fixed-size *)
(* frame, the generation-3 classifier gates elantech_report_absolute_v3,   *)
(* which decodes finger positions, tracks tap-to-click and dispatches      *)
(* relative pointer events.                                                *)
(*                                                                         *)
(* Integers.  x1, y1, x2, y2 are `unsigned int`; every value they take is  *)
(* below 2^13 in magnitude, so a 32-bit unsigned value is kept here by its *)
(* two's-complement reading (y_max - raw below zero is the wrapped value   *)
(* 2^32 + y_max - raw).  IOGPoint fields are SInt16: SInt16Of truncates.   *)
(***************************************************************************)
EXTENDS Integers, Sequences, FiniteSets, TLC

\* ------------------------------------------------------------------------
\* Bounds of the model
\* ------------------------------------------------------------------------

\* _packetByteCount is a UInt32 that the handler only increments when a frame
\* is not handed to the generation-3 decoder; bytes are accepted while it is
\* below this cap.
MaxCount == 7

\* ------------------------------------------------------------------------
\* Program constants
\* ------------------------------------------------------------------------

PACKET_UNKNOWN  == 1
PACKET_DEBOUNCE == 2
PACKET_V3_HEAD  == 3
PACKET_V3_TAIL  == 4
ETP_MAX_FINGERS == 5
ETP_TAPTOCLICK_DIST == 32
\* UInt8 _packetBuffer[6]
PacketBufferSize == 6

Slots == 0 .. (ETP_MAX_FINGERS - 1)

\* ------------------------------------------------------------------------
\* Bit operations on bytes
\* ------------------------------------------------------------------------

RECURSIVE BitAndN(_, _, _)
BitAndN(a, b, n) ==
    IF n = 0 THEN 0
    ELSE (a % 2) * (b % 2) + 2 * BitAndN(a \div 2, b \div 2, n - 1)

\* the masks the driver applies (0x01, 0x02, 0x0c, 0x0f, 0xc0, 0xce, 0xcf) and
\* the button bits it combines
Masks == {0, 1, 2, 3, 12, 15, 192, 206, 207}

\* a & m for every byte a and every mask m, computed once
AndTable == [a \in 0 .. 255 |-> [m \in Masks |-> BitAndN(a, m, 8)]]

\* a & b on 8-bit operands
And8(a, b) == AndTable[a][b]

\* a | b on 8-bit operands
Or8(a, b) == a + b - And8(a, b)

\* conversion of an int to SInt16 (assignment to an IOGPoint field)
SInt16Of(n) ==
    LET m == n % 65536 IN IF m >= 32768 THEN m - 65536 ELSE m

IOGPoint(px, py) == [x |-> SInt16Of(px), y |-> SInt16Of(py)]

\* ------------------------------------------------------------------------
\* State
\* ------------------------------------------------------------------------

VARIABLES
    hw_version,        \* etd->hw_version, fixed by detection
    pktsize,           \* frame length chosen by start()
    y_max,             \* etd->y_max, from the range query
    _packetBuffer,     \* [0..5 -> byte]
    _packetByteCount,
    last_fingers,
    tapToClick,
    tapInRange,        \* [Slots -> BOOLEAN]
    lastPoint,
    validLastPoint,
    startPoint,        \* [Slots -> IOGPoint]
    validStartPoint,   \* [Slots -> BOOLEAN]
    mt0,               \* etd->mt[0]
    classified,        \* frames classified by the last step, and whether decoded
    emitted,           \* events dispatched by the last step, in order
    \* history of the decoded frames (observers, written by no program code)
    hSince,            \* bytes received since the last frame boundary
    hPrevFingers,      \* finger count of the previous decoded frame, 0 at start
    hSeq,              \* frames decoded since the last zero-finger frame
    hStart,            \* first valid sample of each slot in this contact
    hFar,              \* a valid sample was over 32 units from its slot's hStart
    hLast,             \* the previous valid single-finger sample of this contact
    hBefore,           \* hPrevFingers, hSeq, hFar before the frame this step decoded
    \* detection: the fields of e_data that probe() writes
    fw_version,
    parity,            \* [0 .. 255 -> 0 .. 1]
    send_cmd,
    paritycheck,
    jumpy_cursor,
    debug,
    reports_pressure,
    \* attachment
    probed,            \* "no", or what probe() returned: "this" or "null"
    Byte,              \* probe()'s Byte[3] when it returned
    started,           \* "no", or what start() returned: "true" or "false"
    _interruptHandlerInstalled,
    touchPadEnabled,   \* the trackpad was told to report (kDP_Enable)
    bus,               \* requests submitted to the PS/2 port by the last step
    result,            \* what the register call of the last step returned:
                       \* <<>> where it returned or stored nothing
    call               \* the control-path call of the last step: its name
                       \* (op) and its arguments and replies (in)

gesture == <<last_fingers, tapToClick, tapInRange, lastPoint, validLastPoint,
             startPoint, validStartPoint, mt0>>
profile == <<hw_version, pktsize, y_max>>
history == <<hSince, hPrevFingers, hSeq, hStart, hFar, hLast, hBefore>>
detection == <<fw_version, parity, send_cmd, paritycheck, jumpy_cursor, debug,
               reports_pressure>>
attachment == <<probed, Byte, started, _interruptHandlerInstalled, touchPadEnabled>>
vars == <<profile, _packetBuffer, _packetByteCount, gesture, classified,
          emitted, history, detection, attachment, bus, result, call>>

\* no frame decoded: the history at start-up
NoContact == [prev |-> 0, seq |-> "idle", far |-> FALSE]

\* the driver object as a record, for the operators below
Driver ==
    [buf |-> _packetBuffer, count |-> _packetByteCount,
     last_fingers |-> last_fingers, tapToClick |-> tapToClick,
     tapInRange |-> tapInRange, lastPoint |-> lastPoint,
     validLastPoint |-> validLastPoint, startPoint |-> startPoint,
     validStartPoint |-> validStartPoint, mt0 |-> mt0,
     classified |-> <<>>, emitted |-> <<>>,
     hSince |-> hSince, hPrevFingers |-> hPrevFingers, hSeq |-> hSeq,
     hStart |-> hStart, hFar |-> hFar, hLast |-> hLast, hBefore |-> NoContact]

Becomes(d) ==
    /\ _packetBuffer' = d.buf
    /\ _packetByteCount' = d.count
    /\ last_fingers' = d.last_fingers
    /\ tapToClick' = d.tapToClick
    /\ tapInRange' = d.tapInRange
    /\ lastPoint' = d.lastPoint
    /\ validLastPoint' = d.validLastPoint
    /\ startPoint' = d.startPoint
    /\ validStartPoint' = d.validStartPoint
    /\ mt0' = d.mt0
    /\ classified' = d.classified
    /\ emitted' = d.emitted
    /\ hSince' = d.hSince
    /\ hPrevFingers' = d.hPrevFingers
    /\ hSeq' = d.hSeq
    /\ hStart' = d.hStart
    /\ hFar' = d.hFar
    /\ hLast' = d.hLast
    /\ hBefore' = d.hBefore

\* ------------------------------------------------------------------------
\* Packet classifier (generation 3)
\* ------------------------------------------------------------------------

debounce_packet == [i \in 0 .. 5 |-> IF i = 0 THEN 196 ELSE IF i = 3 THEN 2 ELSE 255]

\* variant: the debounce frame is tested after the head signature
elantech_packet_check_v3_HeadFirst(packet) ==
    IF And8(packet[0], 12) = 4 /\ And8(packet[3], 207) = 2 THEN PACKET_V3_HEAD
    ELSE IF \A i \in 0 .. 5 : packet[i] = debounce_packet[i] THEN PACKET_DEBOUNCE
    ELSE IF And8(packet[0], 12) = 12 /\ And8(packet[3], 206) = 12 THEN PACKET_V3_TAIL
    ELSE PACKET_UNKNOWN

elantech_packet_check_v3(packet) ==
    IF \A i \in 0 .. 5 : packet[i] = debounce_packet[i] THEN PACKET_DEBOUNCE
    ELSE IF And8(packet[0], 12) = 4 /\ And8(packet[3], 207) = 2 THEN PACKET_V3_HEAD
    ELSE IF And8(packet[0], 12) = 12 /\ And8(packet[3], 206) = 12 THEN PACKET_V3_TAIL
    ELSE PACKET_UNKNOWN

\* ------------------------------------------------------------------------
\* Decoder: elantech_report_absolute_v3
\* ------------------------------------------------------------------------

\* fingers = (packet[0] & 0xc0) >> 6
FingersOf(packet) == And8(packet[0], 192) \div 64

\* buttons: bit 0 left, bit 1 right, copied from byte 0
ButtonsOf(packet) ==
    Or8(IF And8(packet[0], 1) # 0 THEN 1 ELSE 0,
        IF And8(packet[0], 2) # 0 THEN 2 ELSE 0)

\* variant: byte 1 is not masked
DecodeX_Unmasked(packet) == packet[1] * 256 + packet[2]

\* ((packet[1] & 0x0f) << 8) | packet[2]
DecodeX(packet) == And8(packet[1], 15) * 256 + packet[2]

\* etd->y_max - (((packet[4] & 0x0f) << 8) | packet[5])
DecodeY(packet) == y_max - (And8(packet[4], 15) * 256 + packet[5])

\* x1 != 0 && y1 != 0
ValidCoordinates(px, py) == px # 0 /\ py # 0

\* variant: a displacement of exactly the threshold is out of range
TapOutOfRange_Inclusive(x_diff, y_diff) ==
    \/ x_diff <= -ETP_TAPTOCLICK_DIST
    \/ x_diff >= ETP_TAPTOCLICK_DIST
    \/ y_diff <= -ETP_TAPTOCLICK_DIST
    \/ y_diff >= ETP_TAPTOCLICK_DIST

\* variant: the Y displacement is not tested
TapOutOfRange_XOnly(x_diff, y_diff) ==
    \/ x_diff < -ETP_TAPTOCLICK_DIST
    \/ x_diff > ETP_TAPTOCLICK_DIST

\* the tap-radius test on the displacement from the start point
TapOutOfRange(x_diff, y_diff) ==
    \/ x_diff < -ETP_TAPTOCLICK_DIST
    \/ x_diff > ETP_TAPTOCLICK_DIST
    \/ y_diff < -ETP_TAPTOCLICK_DIST
    \/ y_diff > ETP_TAPTOCLICK_DIST

\* variant: the previous finger count is tested against 3
SynthesizedButton_UpToThree(d) ==
    IF d.tapToClick /\ d.last_fingers <= 3 /\ d.last_fingers > 0
    THEN (IF d.last_fingers = 1 THEN 1 ELSE 2)
    ELSE 0

\* the button bit added on a zero-finger frame
SynthesizedButton(d) ==
    IF d.tapToClick /\ d.last_fingers <= 2 /\ d.last_fingers > 0
    THEN (IF d.last_fingers = 1 THEN 1 ELSE 2)
    ELSE 0

\* dispatchRelativePointerEvent(dx, dy, buttons, now)
PointerEvent(dx, dy, buttons) == [dx |-> dx, dy |-> dy, buttons |-> buttons]

\* variant: a sample back within the radius sets the flag again
RangeAfterTest_Recovers(d, i, px, py) ==
    [d.tapInRange EXCEPT ![i] =
        ~TapOutOfRange(px - d.startPoint[i].x, py - d.startPoint[i].y)]

\* the tap-in-range flags after the radius test of slot i
RangeAfterTest(d, i, px, py) ==
    IF TapOutOfRange(px - d.startPoint[i].x, py - d.startPoint[i].y)
    THEN [d.tapInRange EXCEPT ![i] = FALSE]
    ELSE d.tapInRange

\* start-point latch and tap-radius test of one finger slot; `guard` is the
\* condition the code tests before the radius test
TrackSlot(d, i, px, py, guard) ==
    IF d.validStartPoint[i]
    THEN IF guard
         THEN LET range == RangeAfterTest(d, i, px, py)
              IN  [d EXCEPT !.tapInRange = range,
                            !.tapToClick = IF ~range[i] THEN FALSE ELSE @]
         ELSE d
    ELSE [d EXCEPT !.startPoint[i] = IOGPoint(px, py),
                   !.validStartPoint[i] = TRUE]

\* variant: only slot 0 is back in range
ReleasedRange_FirstSlotOnly(d) == [d.tapInRange EXCEPT ![0] = TRUE]

\* the flags a zero-finger frame leaves
ReleasedRange(d) == [i \in Slots |-> TRUE]
\* variant: the loop stops after the first slot
ReleasedStart_FirstSlotOnly(d) == [d.validStartPoint EXCEPT ![0] = FALSE]

ReleasedStart(d) == [i \in Slots |-> FALSE]

\* case 0
ReportZeroFingers(d, packet) ==
    [d EXCEPT !.emitted = Append(@, PointerEvent(0, 0,
                              Or8(ButtonsOf(packet), SynthesizedButton(d)))),
              !.validLastPoint = FALSE,
              !.validStartPoint = ReleasedStart(d),
              !.tapInRange = ReleasedRange(d),
              !.tapToClick = TRUE]

\* variant: the event is dispatched without testing validLastPoint
MotionEvents_Unchecked(d, px, py, buttons) ==
    <<PointerEvent(px - d.lastPoint.x, py - d.lastPoint.y, buttons)>>

\* the motion event of a valid single-finger sample
MotionEvents(d, px, py, buttons) ==
    IF d.validLastPoint
    THEN <<PointerEvent(px - d.lastPoint.x, py - d.lastPoint.y, buttons)>>
    ELSE <<>>

\* case 1; `if (tapInRange)` tests the array, which is never null
ReportOneFinger(d, packet) ==
    LET x1 == DecodeX(packet)
        y1 == DecodeY(packet)
    IN  IF ValidCoordinates(x1, y1)
        THEN TrackSlot([d EXCEPT !.emitted = @ \o MotionEvents(d, x1, y1, ButtonsOf(packet)),
                                 !.lastPoint = IOGPoint(x1, y1),
                                 !.validLastPoint = TRUE],
                       0, x1, y1, TRUE)
        ELSE d

\* variant: case 3 without its break falls into case 1
ReportThreeFingers_FallsThrough(d) == ReportOneFinger(d, d.buf)

\* variant: case 3 drops the last point as case 0 does
ReportThreeFingers_Invalidates(d) == [d EXCEPT !.validLastPoint = FALSE]

\* case 3
ReportThreeFingers(d) == d

\* case 2, PACKET_V3_HEAD
ReportTwoFingersHead(d, packet) ==
    LET x1 == DecodeX(packet)
        y1 == DecodeY(packet)
        tracked == IF ValidCoordinates(x1, y1)
                   THEN TrackSlot(d, 0, x1, y1, d.tapInRange[0])
                   ELSE d
    IN  [tracked EXCEPT !.mt0 = IOGPoint(x1, y1)]

\* variant: the tail branch tracks slot 0
ReportTwoFingersTail_SlotZero(d, packet) ==
    LET x2 == DecodeX(packet)
        y2 == DecodeY(packet)
    IN  IF ValidCoordinates(x2, y2)
        THEN TrackSlot(d, 0, x2, y2, d.tapInRange[0])
        ELSE d

\* case 2, PACKET_V3_TAIL
ReportTwoFingersTail(d, packet) ==
    LET x2 == DecodeX(packet)
        y2 == DecodeY(packet)
    IN  IF ValidCoordinates(x2, y2)
        THEN TrackSlot(d, 1, x2, y2, d.tapInRange[1])
        ELSE d

\* the counter after the decoder returns
CountAfterReport == 0

\* the finger count the decoder remembers
FingersRemembered(fingers) == fingers

elantech_report_absolute_v3(d, packet, type) ==
    LET fingers == FingersOf(packet)
        reported ==
            CASE fingers = 0 -> ReportZeroFingers(d, packet)
              [] fingers = 3 -> ReportThreeFingers(d)
              [] fingers = 1 -> ReportOneFinger(d, packet)
              [] fingers = 2 /\ type = PACKET_V3_HEAD -> ReportTwoFingersHead(d, packet)
              [] OTHER -> ReportTwoFingersTail(d, packet)
    IN  [reported EXCEPT !.last_fingers = FingersRemembered(fingers),
                         !.count = CountAfterReport]

\* ------------------------------------------------------------------------
\* interruptOccurred
\* ------------------------------------------------------------------------

\* _packetBuffer[_packetByteCount++] = data.  An index of PacketBufferSize or
\* more is outside the array: the store is undefined behaviour.  The counter
\* is the member declared right after the buffer, so the store can land on
\* it: the counter then holds any value.  Every other member the handler
\* reads lies beyond e_data, further from the buffer than the counter; a
\* store that reaches one leaves the counter above pktsize, where no frame is
\* classified again.
StoredBuffer(d, data) ==
    IF d.count < PacketBufferSize
    THEN [d.buf EXCEPT ![d.count] = data]
    ELSE d.buf

CountsAfterStore(d) ==
    IF d.count < PacketBufferSize
    THEN {d.count + 1}
    ELSE 0 .. MaxCount

\* if (_packetByteCount == pktsize)
FrameComplete(count) == count = pktsize

\* variant: only the debounce frame is ignored
Decoded_DebounceOnly(type) == type # PACKET_DEBOUNCE

\* the verdicts handed to the decoder
Decoded(type) == type # PACKET_DEBOUNCE /\ type # PACKET_UNKNOWN

\* case 3 of the switch on etd->hw_version
DispatchV3(d) ==
    LET type == elantech_packet_check_v3(d.buf)
        seen == [d EXCEPT !.classified = Append(@, [type |-> type, packet |-> d.buf,
                                                     decoded |-> Decoded(type)])]
    IN  IF Decoded(type)
        THEN elantech_report_absolute_v3(seen, d.buf, type)
        ELSE seen

\* the call, given the counter the store and increment leave
Handle(d, data, count) ==
    LET stored == [d EXCEPT !.buf = StoredBuffer(d, data), !.count = count]
    IN  IF FrameComplete(count) /\ hw_version = 3
        THEN DispatchV3(stored)
        ELSE stored

\* ------------------------------------------------------------------------
\* History of the decoded frames
\* ------------------------------------------------------------------------

NoPoint == [x |-> 0, y |-> 0]

\* the slot a decoded frame carries a sample for
SampleSlot(packet, type) ==
    IF FingersOf(packet) = 1 THEN 0
    ELSE IF type = PACKET_V3_HEAD THEN 0 ELSE 1

\* the decoded frame carries a sample with non-zero coordinates
HasSample(packet) ==
    /\ FingersOf(packet) \in {1, 2}
    /\ DecodeX(packet) # 0
    /\ DecodeY(packet) # 0

Distance(a, b) == IF a >= b THEN a - b ELSE b - a

\* the frames of a log that were handed to the decoder
DecodedIn(log) == SelectSeq(log, LAMBDA c : c.decoded)

ObserveFrame(d, packet, type) ==
    LET f == FingersOf(packet)
        s == SampleSlot(packet, type)
        p == [x |-> DecodeX(packet), y |-> DecodeY(packet)]
    IN  IF f = 0
        THEN [d EXCEPT !.hPrevFingers = 0, !.hSeq = "idle",
                       !.hStart = [i \in 0 .. 1 |-> NoPoint], !.hFar = FALSE,
                       !.hLast = NoPoint]
        ELSE [d EXCEPT
                !.hPrevFingers = f,
                !.hSeq = IF f = 1 /\ HasSample(packet) /\ @ # "other"
                         THEN "single" ELSE "other",
                !.hStart = IF HasSample(packet) /\ @[s] = NoPoint
                           THEN [@ EXCEPT ![s] = p] ELSE @,
                !.hFar = \/ @
                         \/ /\ HasSample(packet)
                            /\ d.hStart[s] # NoPoint
                            /\ \/ Distance(p.x, d.hStart[s].x) > ETP_TAPTOCLICK_DIST
                               \/ Distance(p.y, d.hStart[s].y) > ETP_TAPTOCLICK_DIST,
                !.hLast = IF f = 1 /\ HasSample(packet) THEN p ELSE @]

\* the history after a call that took the driver from `before` to `after`
Observe(before, after) ==
    LET n == Len(after.classified)
        counted == [after EXCEPT !.hSince = (before.hSince + 1) % pktsize]
    IN  IF n > Len(before.classified) /\ after.classified[n].decoded
        THEN ObserveFrame([counted EXCEPT !.hBefore = [prev |-> before.hPrevFingers,
                                                       seq |-> before.hSeq,
                                                       far |-> before.hFar]],
                          after.classified[n].packet, after.classified[n].type)
        ELSE counted

Step(d, data, count) == Observe(d, Handle(d, data, count))

\* variant: the handler enables the trackpad on every byte
InterruptRequests_Enable ==
    <<<<[command |-> "kPS2C_SendMouseCommandAndCompareAck", kDP |-> TRUE,
         inOrOut |-> "kDP_Enable"]>>>>

\* the requests interruptOccurred and the decoder it calls submit: they
\* allocate and submit none
InterruptRequests == <<>>

\* one call per byte of a frame that starts at a frame boundary
RECURSIVE Feed(_, _)
Feed(d, bytes) ==
    IF bytes = <<>> THEN d
    ELSE Feed(Step(d, Head(bytes), d.count + 1), Tail(bytes))

\* ------------------------------------------------------------------------
\* PS/2 requests
\* ------------------------------------------------------------------------

\* the mouse commands of the port driver, by name
kDP_SetDefaults == "kDP_SetDefaults"
kDP_SetDefaultsAndDisable == "kDP_SetDefaultsAndDisable"
kDP_SetMouseScaling1To1 == "kDP_SetMouseScaling1To1"
kDP_SetMouseResolution == "kDP_SetMouseResolution"
kDP_GetMouseInformation == "kDP_GetMouseInformation"
kDP_SetAllMakeRelease == "kDP_SetAllMakeRelease"
kDP_Enable == "kDP_Enable"

ETP_FW_VERSION_QUERY == 1

\* one entry of request->commands[]: a command of the port driver (kDP) or a
\* byte, sent to the mouse and acknowledged, or a byte read from the data
\* port (inOrOut holds it once the request has run)
SendMouseCommand(name) ==
    [command |-> "kPS2C_SendMouseCommandAndCompareAck", kDP |-> TRUE,
     inOrOut |-> name]
SendByte(byte) ==
    [command |-> "kPS2C_SendMouseCommandAndCompareAck", kDP |-> FALSE,
     inOrOut |-> byte]
ReadDataPort(byte) ==
    [command |-> "kPS2C_ReadDataPort", kDP |-> FALSE, inOrOut |-> byte]

\* a three-byte array, indexed from 0
Bytes3(a, b, c) == [i \in 0 .. 2 |-> IF i = 0 THEN a ELSE IF i = 1 THEN b ELSE c]

\* the three reads that end a query, returning `reply`
ReadReply(reply) ==
    <<ReadDataPort(reply[0]), ReadDataPort(reply[1]), ReadDataPort(reply[2])>>

\* d = (command >> i) & 3
Slice(command, i) == (command \div (2 ^ i)) % 4

\* variant: the two-bit groups sent low to high
psmouse_sliced_command_LowToHigh(command) ==
    <<SendMouseCommand(kDP_SetMouseScaling1To1),
      SendMouseCommand(kDP_SetMouseResolution), SendByte(Slice(command, 0)),
      SendMouseCommand(kDP_SetMouseResolution), SendByte(Slice(command, 2)),
      SendMouseCommand(kDP_SetMouseResolution), SendByte(Slice(command, 4)),
      SendMouseCommand(kDP_SetMouseResolution), SendByte(Slice(command, 6))>>

\* the commands psmouse_sliced_command stores: one scaling command, then a
\* set-resolution command and its argument for i = 6, 4, 2, 0
psmouse_sliced_command(command) ==
    <<SendMouseCommand(kDP_SetMouseScaling1To1),
      SendMouseCommand(kDP_SetMouseResolution), SendByte(Slice(command, 6)),
      SendMouseCommand(kDP_SetMouseResolution), SendByte(Slice(command, 4)),
      SendMouseCommand(kDP_SetMouseResolution), SendByte(Slice(command, 2)),
      SendMouseCommand(kDP_SetMouseResolution), SendByte(Slice(command, 0))>>

\* the request synaptics_send_cmd submits, as it is when it has run
synaptics_send_cmd(c, reply) ==
    psmouse_sliced_command(c)
        \o <<SendMouseCommand(kDP_GetMouseInformation)>> \o ReadReply(reply)

\* the request elantech_send_cmd submits, as it is when it has run
elantech_send_cmd(c, reply) ==
    <<SendMouseCommand(kDP_SetAllMakeRelease), SendByte(c),
      SendMouseCommand(kDP_GetMouseInformation)>> \o ReadReply(reply)

\* ------------------------------------------------------------------------
\* Register access: elantech_write_reg, elantech_read_reg
\* ------------------------------------------------------------------------

ETP_REGISTER_READ == 16
ETP_REGISTER_WRITE == 17
ETP_REGISTER_READWRITE == 0
ETP_PS2_CUSTOM_COMMAND == 248

\* variant: the limits of the middle range are rejected too
InvalidRegister_ClosedRange(reg) ==
    reg < 7 \/ reg > 38 \/ (reg >= 17 /\ reg <= 32)

\* variant: no lower limit
InvalidRegister_NoLowerLimit(reg) == reg > 38 \/ (reg > 17 /\ reg < 32)

\* reg < 0x07 || reg > 0x26, then reg > 0x11 && reg < 0x20
InvalidRegister(reg) == reg < 7 \/ reg > 38 \/ (reg > 17 /\ reg < 32)

\* ETP_PS2_CUSTOM_COMMAND, then the byte
Custom(byte) ==
    <<SendByte(ETP_PS2_CUSTOM_COMMAND), SendByte(byte)>>

\* variant: a write ends with the information query, as a read does
WriteCommands_QueryTerminated(reg, val) ==
    CASE hw_version = 1 ->
             psmouse_sliced_command(ETP_REGISTER_WRITE)
                 \o psmouse_sliced_command(reg) \o psmouse_sliced_command(val)
                 \o <<SendMouseCommand(kDP_SetMouseScaling1To1)>>
      [] hw_version = 2 ->
             Custom(ETP_REGISTER_WRITE) \o Custom(reg) \o Custom(val)
                 \o <<SendMouseCommand(kDP_GetMouseInformation)>>
      [] hw_version = 3 ->
             Custom(ETP_REGISTER_READWRITE) \o Custom(reg) \o Custom(val)
                 \o <<SendMouseCommand(kDP_GetMouseInformation)>>
      [] hw_version = 4 ->
             Custom(ETP_REGISTER_READWRITE) \o Custom(reg)
                 \o Custom(ETP_REGISTER_READWRITE) \o Custom(val)
                 \o <<SendMouseCommand(kDP_GetMouseInformation)>>
      [] OTHER -> <<>>

\* variant: generation 2 writes with sliced commands
WriteCommands_SlicedV2(reg, val) ==
    CASE hw_version \in {1, 2} ->
             psmouse_sliced_command(ETP_REGISTER_WRITE)
                 \o psmouse_sliced_command(reg) \o psmouse_sliced_command(val)
                 \o <<SendMouseCommand(kDP_SetMouseScaling1To1)>>
      [] hw_version = 3 ->
             Custom(ETP_REGISTER_READWRITE) \o Custom(reg) \o Custom(val)
                 \o <<SendMouseCommand(kDP_SetMouseScaling1To1)>>
      [] hw_version = 4 ->
             Custom(ETP_REGISTER_READWRITE) \o Custom(reg)
                 \o Custom(ETP_REGISTER_READWRITE) \o Custom(val)
                 \o <<SendMouseCommand(kDP_SetMouseScaling1To1)>>
      [] OTHER -> <<>>

\* the commands of the request elantech_write_reg submits, by the switch on
\* etd->hw_version; none when no case matches
WriteCommands(reg, val) ==
    CASE hw_version = 1 ->
             psmouse_sliced_command(ETP_REGISTER_WRITE)
                 \o psmouse_sliced_command(reg) \o psmouse_sliced_command(val)
                 \o <<SendMouseCommand(kDP_SetMouseScaling1To1)>>
      [] hw_version = 2 ->
             Custom(ETP_REGISTER_WRITE) \o Custom(reg) \o Custom(val)
                 \o <<SendMouseCommand(kDP_SetMouseScaling1To1)>>
      [] hw_version = 3 ->
             Custom(ETP_REGISTER_READWRITE) \o Custom(reg) \o Custom(val)
                 \o <<SendMouseCommand(kDP_SetMouseScaling1To1)>>
      [] hw_version = 4 ->
             Custom(ETP_REGISTER_READWRITE) \o Custom(reg)
                 \o Custom(ETP_REGISTER_READWRITE) \o Custom(val)
                 \o <<SendMouseCommand(kDP_SetMouseScaling1To1)>>
      [] OTHER -> <<>>

\* the commands the switch of elantech_read_reg stores
ReadCommands(reg) ==
    CASE hw_version = 1 ->
             psmouse_sliced_command(ETP_REGISTER_READ) \o psmouse_sliced_command(reg)
      [] hw_version = 2 -> Custom(ETP_REGISTER_READ) \o Custom(reg)
      [] hw_version \in {3, 4} -> Custom(ETP_REGISTER_READWRITE) \o Custom(reg)
      [] OTHER -> <<>>

\* the requests a call submits, none when it stores no command
Submitted(commands) == IF commands = <<>> THEN <<>> ELSE <<commands>>

\* `request`: allocateRequest() returned one.  rc holds the return value,
\* val what the call stored through its pointer (nothing for a write), bus
\* the requests submitted.
elantech_write_reg(reg, val, request) ==
    IF InvalidRegister(reg) \/ ~request
    THEN [rc |-> <<-1>>, val |-> <<>>, bus |-> <<>>]
    ELSE [rc |-> <<0>>, val |-> <<>>, bus |-> Submitted(WriteCommands(reg, val))]

\* variant: reply byte 0 on every generation
elantech_read_reg_FirstByte(reg, reply, request) ==
    IF InvalidRegister(reg) \/ ~request
    THEN [rc |-> <<-1>>, val |-> <<>>, bus |-> <<>>]
    ELSE [rc |-> <<0>>,
          val |-> <<reply[0]>>,
          bus |-> <<ReadCommands(reg)
                      \o <<SendMouseCommand(kDP_GetMouseInformation)>>
                      \o ReadReply(reply)>>]

\* reply byte 1 on generation 4, reply byte 0 otherwise
elantech_read_reg(reg, reply, request) ==
    IF InvalidRegister(reg) \/ ~request
    THEN [rc |-> <<-1>>, val |-> <<>>, bus |-> <<>>]
    ELSE [rc |-> <<0>>,
          val |-> IF hw_version # 4 THEN <<reply[0]>> ELSE <<reply[1]>>,
          bus |-> <<ReadCommands(reg)
                      \o <<SendMouseCommand(kDP_GetMouseInformation)>>
                      \o ReadReply(reply)>>]

\* ------------------------------------------------------------------------
\* Detection: probe(), elantech_is_signature_valid, elantech_set_properties
\* ------------------------------------------------------------------------

\* the fields of e_data that detection writes, as a record
EData ==
    [fw_version |-> fw_version, hw_version |-> hw_version, parity |-> parity,
     send_cmd |-> send_cmd, paritycheck |-> paritycheck,
     jumpy_cursor |-> jumpy_cursor, debug |-> debug,
     reports_pressure |-> reports_pressure]

\* variant: the entry of i is derived from the entry of i >> 1
ClearLowestBit_Shift(i) == i \div 2

\* i & (i - 1)
ClearLowestBit(i) == BitAndN(i, i - 1, 8)

\* v ^ 1 on a table entry
Flip(v) == (v + 1) % 2

\* etd->parity[0] = 1; etd->parity[i] = etd->parity[i & (i - 1)] ^ 1
RECURSIVE ParityEntry(_)
ParityEntry(i) == IF i = 0 THEN 1 ELSE Flip(ParityEntry(ClearLowestBit(i)))

BuiltParity == [i \in 0 .. 255 |-> ParityEntry(i)]

rates == <<200, 100, 80, 60, 40, 20, 10>>

\* variant: a zero second byte does not end the test
elantech_is_signature_valid_NoShortCut(param) ==
    IF param[0] = 0 THEN FALSE
    ELSE ~\E i \in 1 .. Len(rates) : param[2] = rates[i]

elantech_is_signature_valid(param) ==
    IF param[0] = 0 THEN FALSE
    ELSE IF param[1] = 0 THEN TRUE
    ELSE ~\E i \in 1 .. Len(rates) : param[2] = rates[i]

\* variant: version 0x020030 itself counts as early hardware
EarlyHardware_Inclusive(fw) == fw <= 131120 \/ fw = 132608

\* etd->fw_version < 0x020030 || etd->fw_version == 0x020600
EarlyHardware(fw) == fw < 131120 \/ fw = 132608

\* ver = (etd->fw_version & 0x0f0000) >> 16
BodyVersion(fw) == (fw \div 65536) % 16

\* the generation the switch assigns, 0 for its default branch
HardwareVersionOf(fw) ==
    IF EarlyHardware(fw) THEN 1
    ELSE CASE BodyVersion(fw) \in {2, 4} -> 2
           [] BodyVersion(fw) = 5 -> 3
           [] BodyVersion(fw) = 6 -> 4
           [] OTHER -> 0

\* rc is the return value; etd the structure as the call leaves it
elantech_set_properties(etd) ==
    LET hw == HardwareVersionOf(etd.fw_version)
    IN  IF hw = 0
        THEN [rc |-> -1, etd |-> etd]
        ELSE [rc |-> 0,
              etd |-> [etd EXCEPT
                         !.hw_version = hw,
                         !.send_cmd = (hw >= 3),
                         !.paritycheck = TRUE,
                         !.jumpy_cursor = (etd.fw_version = 131106
                                           \/ etd.fw_version = 132608),
                         !.debug = IF hw > 1 THEN 2 ELSE @,
                         !.reports_pressure =
                             IF hw > 1 /\ etd.fw_version >= 133120 THEN TRUE ELSE @]]

\* the "magic knock" request, as it is when it has run
KnockRequest(knock) ==
    <<SendMouseCommand(kDP_SetDefaults),
      SendMouseCommand(kDP_SetDefaultsAndDisable),
      SendMouseCommand(kDP_SetMouseScaling1To1),
      SendMouseCommand(kDP_SetMouseScaling1To1),
      SendMouseCommand(kDP_SetMouseScaling1To1),
      SendMouseCommand(kDP_GetMouseInformation)>> \o ReadReply(knock)

\* variant: the third byte of the knock reply is not tested
UnexpectedKnock_TwoBytes(b) == b[0] # 60 \/ b[1] # 3

\* Byte[0] != 0x3c || Byte[1] != 0x03 || (Byte[2] != 0xc8 && Byte[2] != 0x00)
UnexpectedKnock(b) == b[0] # 60 \/ b[1] # 3 \/ (b[2] # 200 /\ b[2] # 0)

\* allocateRequest() is called four times on the way through probe(): before
\* the knock, twice after it, and in synaptics_send_cmd
ProbeAllocations == 4

\* probe(), given the knock reply, the reply to the version query and the
\* allocation that returns no request (0: none).  synaptics_send_cmd without
\* a request returns -1, which probe() does not test: Byte[] then still holds
\* the knock reply.
ProbeOutcome(knock, reply, failing) ==
    LET rejected(requests, bytes) ==
            [returned |-> "null", etd |-> EData, bus |-> requests, Byte |-> bytes]
        asked == failing # 4
        bytes == IF asked THEN reply ELSE knock
        requests == IF asked
                    THEN <<KnockRequest(knock),
                           synaptics_send_cmd(ETP_FW_VERSION_QUERY, reply)>>
                    ELSE <<KnockRequest(knock)>>
        versioned == [EData EXCEPT
                        !.parity = BuiltParity,
                        !.fw_version = bytes[0] * 65536 + bytes[1] * 256 + bytes[2]]
        set == elantech_set_properties(versioned)
    IN  IF failing = 1 THEN rejected(<<>>, Byte)
        ELSE IF failing = 2 THEN rejected(<<KnockRequest(knock)>>, knock)
        ELSE IF UnexpectedKnock(knock) THEN rejected(<<KnockRequest(knock)>>, knock)
        ELSE IF failing = 3 THEN rejected(<<KnockRequest(knock)>>, knock)
        ELSE IF ~elantech_is_signature_valid(bytes) THEN rejected(requests, bytes)
        ELSE [returned |-> IF set.rc # 0 THEN "null" ELSE "this",
              etd |-> set.etd, bus |-> requests, Byte |-> bytes]

\* ------------------------------------------------------------------------
\* start(): capabilities, absolute mode, range, handler, enable
\* ------------------------------------------------------------------------

ETP_FW_ID_QUERY == 0
ETP_CAPABILITIES_QUERY == 2
ETP_SAMPLE_QUERY == 3
ETP_RESOLUTION_QUERY == 4
ETP_R10_ABSOLUTE_MODE == 4
ETP_EDGE_FUZZ_V1 == 32
ETP_XMAX_V1 == 576 - ETP_EDGE_FUZZ_V1
ETP_YMAX_V1 == 384 - ETP_EDGE_FUZZ_V1
ETP_XMAX_V2 == 1152
ETP_YMAX_V2 == 768

\* the controller's command port and the bits of its command byte, by name
kCP_GetCommandByte == "kCP_GetCommandByte"
kCP_SetCommandByte == "kCP_SetCommandByte"
kCB_EnableMouseIRQ == "kCB_EnableMouseIRQ"
kCB_DisableMouseClock == "kCB_DisableMouseClock"

\* the progress of a control path: n calls of allocateRequest() made, the
\* return value rc of the last call, the requests submitted
NoCalls == [n |-> 0, rc |-> 0, bus |-> <<>>]

\* a call that allocates one request and submits `commands`; the allocation
\* numbered `failing` returns no request and the call returns -1
Query(s, failing, commands) ==
    IF s.n + 1 = failing
    THEN [n |-> s.n + 1, rc |-> -1, bus |-> s.bus]
    ELSE [n |-> s.n + 1, rc |-> 0, bus |-> Append(s.bus, commands)]

\* send_cmd: elantech_send_cmd if etd->send_cmd, synaptics_send_cmd if not
SendCmd(c, reply) ==
    IF send_cmd THEN elantech_send_cmd(c, reply) ELSE synaptics_send_cmd(c, reply)

\* elantech_write_reg and elantech_read_reg as calls of a control path: the
\* register gate comes before the allocation
WriteReg(s, failing, reg, val) ==
    LET w == elantech_write_reg(reg, val, s.n + 1 # failing)
    IN  [n |-> IF InvalidRegister(reg) THEN s.n ELSE s.n + 1,
         rc |-> w.rc[1], bus |-> s.bus \o w.bus]

ReadReg(s, failing, reg, reply) ==
    LET r == elantech_read_reg(reg, reply, s.n + 1 # failing)
    IN  [n |-> IF InvalidRegister(reg) THEN s.n ELSE s.n + 1,
         rc |-> r.rc[1], bus |-> s.bus \o r.bus, val |-> r.val]

\* reg_10, reg_11, reg_21 and reg_07 as elantech_set_absolute_mode writes
\* them, by generation: <<register, value>>
AbsoluteModeWrites ==
    CASE hw_version = 1 -> <<<<16, 22>>, <<17, 143>>>>
      [] hw_version = 2 -> <<<<16, 84>>, <<17, 136>>, <<33, 96>>>>
      [] hw_version = 3 -> <<<<16, 11>>>>
      [] hw_version = 4 -> <<<<7, 1>>>>
      [] OTHER -> <<>>

\* write || write || write: the first failing write ends the chain
RECURSIVE WriteAll(_, _, _)
WriteAll(writes, s, failing) ==
    IF writes = <<>> \/ s.rc # 0 THEN s
    ELSE WriteAll(Tail(writes),
                  WriteReg(s, failing, Head(writes)[1], Head(writes)[2]), failing)

\* variant: generation 1 does not test the absolute-mode bit
Refuses_Never(val) == FALSE

\* etd->hw_version == 1 && !(val & ETP_R10_ABSOLUTE_MODE)
Refuses(val) == hw_version = 1 /\ BitAndN(val, ETP_R10_ABSOLUTE_MODE, 8) = 0

\* the read-back of register 0x10 has returned: rc stays, or becomes -1
\* when the value read is refused
CheckedReadBack(read) ==
    [n |-> read.n,
     rc |-> IF read.rc = 0 /\ Refuses(read.val[1]) THEN -1 ELSE read.rc,
     bus |-> read.bus]

\* the second switch: generations 1 to 3 read register 0x10 back if rc == 0
ReadBack(written, failing, back) ==
    IF hw_version \in 1 .. 3 /\ written.rc = 0
    THEN CheckedReadBack(ReadReg(written, failing, 16, back))
    ELSE written

\* `back`: the reply to the read-back of register 0x10
elantech_set_absolute_mode(s, failing, back) ==
    CHOOSE called \in {ReadBack(written, failing, back) :
                          written \in {WriteAll(AbsoluteModeWrites, s, failing)}} :
        TRUE

\* a call that has returned, with the range it stored
Ranged(t, x, y) ==
    [n |-> t.n, rc |-> t.rc, bus |-> t.bus, x_max |-> x, y_max |-> y]

\* case 2 after the firmware-id query: the sample query and the ranges of
\* the fixed-dpi firmware, the listed firmware versions, or the
\* capabilities times 64
RangeV2(identified, failing, caps, id, sample) ==
    LET i == IF fw_version > 133120 /\ fw_version < 133376 THEN 1 ELSE 2
        fixed_dpi == BitAndN(id[1], 16, 8)
    IN  IF identified.rc # 0 THEN Ranged(identified, 0, 0)
        ELSE IF fw_version \div 65536 = 20 /\ fixed_dpi # 0
             THEN CHOOSE r \in
                      {IF sampled.rc # 0 THEN Ranged(sampled, 0, 0)
                       ELSE Ranged(sampled, ((caps[1] - i) * sample[1]) \div 2,
                                            ((caps[2] - i) * sample[2]) \div 2) :
                       sampled \in {Query(identified, failing,
                                          SendCmd(ETP_SAMPLE_QUERY, sample))}} :
                      TRUE
        ELSE IF fw_version = 262678 THEN Ranged(identified, 819, 405)
        ELSE IF fw_version = 262681 \/ fw_version = 262677
             THEN Ranged(identified, 900, 500)
        ELSE Ranged(identified, (caps[1] - i) * 64, (caps[2] - i) * 64)

\* cases 3 and 4 after the firmware-id query: the range is in the reply;
\* generation 4 fails on a trace count below 2 or above x_max
RangeV3(identified, caps, id) ==
    LET x == (id[0] % 16) * 256 + id[1]
        y == (id[0] \div 16) * 256 + id[2]
        traces == caps[1]
    IN  IF identified.rc # 0 THEN Ranged(identified, 0, 0)
        ELSE IF hw_version = 4 /\ (traces < 2 \/ traces > x)
             THEN Ranged([identified EXCEPT !.rc = -1], x, y)
        ELSE Ranged(identified, x, y)

\* elantech_set_range: x_max and y_max by generation and firmware; `caps` is
\* etd->capabilities, `id` and `sample` the replies to the firmware-id and
\* sample queries.  Unsigned values are kept by what int arithmetic gives.
elantech_set_range(s, failing, caps, id, sample) ==
    CASE hw_version = 1 -> Ranged(s, ETP_XMAX_V1, ETP_YMAX_V1)
      [] hw_version = 2 ->
           IF fw_version = 133120 \/ fw_version = 133888 \/ fw_version = 131120
           THEN Ranged(s, ETP_XMAX_V2, ETP_YMAX_V2)
           ELSE CHOOSE r \in
                    {RangeV2(identified, failing, caps, id, sample) :
                     identified \in {Query(s, failing,
                                           SendCmd(ETP_FW_ID_QUERY, id))}} :
                    TRUE
      [] hw_version \in {3, 4} ->
           CHOOSE r \in
               {RangeV3(identified, caps, id) :
                identified \in {Query(s, failing, SendCmd(ETP_FW_ID_QUERY, id))}} :
               TRUE
      [] OTHER -> Ranged(s, 0, 0)

\* the requests of setCommandByte: per turn of the loop, the read of the
\* command byte (reads[k]) and the test-and-set, whose compare fails in every
\* turn but the last
RECURSIVE CommandByteRequests(_, _, _)
CommandByteRequests(setBits, clearBits, reads) ==
    IF reads = <<>> THEN <<>>
    ELSE <<<<[command |-> "kPS2C_WriteCommandPort", kDP |-> FALSE,
              inOrOut |-> kCP_GetCommandByte],
             ReadDataPort(Head(reads))>>,
           <<[command |-> "kPS2C_WriteCommandPort", kDP |-> FALSE,
              inOrOut |-> kCP_GetCommandByte],
             [command |-> "kPS2C_ReadDataPortAndCompare", kDP |-> FALSE,
              inOrOut |-> Head(reads)],
             [command |-> "kPS2C_WriteCommandPort", kDP |-> FALSE,
              inOrOut |-> kCP_SetCommandByte],
             [command |-> "kPS2C_WriteDataPort", kDP |-> FALSE,
              inOrOut |-> [commandByte |-> Head(reads), setBits |-> setBits,
                           clearBits |-> clearBits]]>>>>
         \o CommandByteRequests(setBits, clearBits, Tail(reads))

\* (commandByte | setBits) & (~clearBits), stored in a UInt8
commandByteNew(commandByte, setBits, clearBits) ==
    LET set == commandByte + setBits - BitAndN(commandByte, setBits, 8)
    IN  set - BitAndN(set, clearBits, 8)

\* the two requests of one turn of the loop, for the command byte read
TestAndSet(commandByte, setBits, clearBits) ==
    <<<<[command |-> "kPS2C_WriteCommandPort", kDP |-> FALSE,
         inOrOut |-> kCP_GetCommandByte],
        ReadDataPort(commandByte)>>,
      <<[command |-> "kPS2C_WriteCommandPort", kDP |-> FALSE,
         inOrOut |-> kCP_GetCommandByte],
        [command |-> "kPS2C_ReadDataPortAndCompare", kDP |-> FALSE,
         inOrOut |-> commandByte],
        [command |-> "kPS2C_WriteCommandPort", kDP |-> FALSE,
         inOrOut |-> kCP_SetCommandByte],
        [command |-> "kPS2C_WriteDataPort", kDP |-> FALSE,
         inOrOut |-> commandByteNew(commandByte, setBits, clearBits)]>>>>

\* variant: the loop ends after its first turn
TestAndSetLoop_Once(setBits, clearBits, present) ==
    TestAndSet(present[1], setBits, clearBits)

\* the do-while loop with numeric bits.  `present` holds the controller's
\* command byte when each request runs: present[1] at the read, present[2]
\* at the test-and-set, and so on by turn.  The compare fails when the byte
\* differs from the one read, the port driver then ends the request with
\* commandsCount below 4, and the loop takes another turn.
RECURSIVE TestAndSetLoop(_, _, _)
TestAndSetLoop(setBits, clearBits, present) ==
    IF Len(present) < 2 THEN <<>>
    ELSE TestAndSet(present[1], setBits, clearBits)
             \o IF present[2] = present[1] THEN <<>>
                ELSE TestAndSetLoop(setBits, clearBits, Tail(Tail(present)))

\* setCommandByte as a call of a control path: returns at once without a
\* request
setCommandByte(s, failing, setBits, clearBits, reads) ==
    IF s.n + 1 = failing
    THEN [n |-> s.n + 1, rc |-> 0, bus |-> s.bus]
    ELSE [n |-> s.n + 1, rc |-> 0,
          bus |-> s.bus \o CommandByteRequests(setBits, clearBits, reads)]

\* setTouchPadEnable as a call of a control path: rc -1 stands for the
\* return without a request, in which nothing is sent
setTouchPadEnable(s, failing, enable) ==
    Query(s, failing,
          <<SendMouseCommand(IF enable THEN kDP_Enable ELSE kDP_SetDefaultsAndDisable)>>)

\* the most calls of allocateRequest() one start() makes (generation 2:
\* capabilities, three writes, read-back, two range queries, command byte,
\* enable)
StartAllocations == 9

\* variant: the interrupt action is installed before the queries
StartFailed_Installed(s) ==
    [returned |-> "false", bus |-> s.bus, ranged |-> FALSE, y_max |-> y_max,
     pktsize |-> pktsize, installed |-> TRUE, enabled |-> FALSE]

\* start() did not get to line 529: it returned false
StartFailed(s) ==
    [returned |-> "false", bus |-> s.bus, ranged |-> FALSE, y_max |-> y_max,
     pktsize |-> pktsize, installed |-> FALSE, enabled |-> FALSE]

\* lines 503-524: each call is made if the one before it returned 0
StartQueried(in) ==
    Query(NoCalls, in.failing, SendCmd(ETP_CAPABILITIES_QUERY, in.caps))

StartAbsolute(in, queried) ==
    IF queried.rc # 0 THEN queried
    ELSE elantech_set_absolute_mode(queried, in.failing, in.back)

\* variant: the result of the range query is not tested
StartRanged_Unchecked(in, absolute) ==
    IF absolute.rc # 0 THEN Ranged(absolute, 0, 0)
    ELSE [elantech_set_range(absolute, in.failing, in.caps, in.id, in.sample)
              EXCEPT !.rc = 0]

StartRanged(in, absolute) ==
    IF absolute.rc # 0 THEN Ranged(absolute, 0, 0)
    ELSE elantech_set_range(absolute, in.failing, in.caps, in.id, in.sample)

\* lines 543-616 after the range query returned 0: the resolution query of
\* generation 4, whose failure is logged only, setCommandByte and
\* setTouchPadEnable(true)
StartEnabled(in, range) ==
    setTouchPadEnable(
        setCommandByte(
            IF hw_version = 4
            THEN Query(range, in.failing,
                       elantech_send_cmd(ETP_RESOLUTION_QUERY, in.res))
            ELSE range,
            in.failing, kCB_EnableMouseIRQ, kCB_DisableMouseClock, in.reads),
        in.failing, TRUE)

StartReturned(in, range) ==
    IF range.rc # 0 THEN StartFailed(range)
    ELSE CHOOSE out \in
             {[returned |-> "true", bus |-> enable.bus, ranged |-> TRUE,
               y_max |-> range.y_max,
               pktsize |-> IF hw_version > 1 THEN 6 ELSE 4,
               installed |-> TRUE, enabled |-> enable.rc = 0] :
              enable \in {StartEnabled(in, range)}} :
             TRUE

\* start(), given what the superclass returns, the allocation that returns
\* no request (0: none) and the replies of the trackpad and the controller.
\* `ranged` tells whether lines 529-561 ran, `installed` whether the
\* interrupt action was installed, `enabled` whether kDP_Enable was sent.
StartOutcome(in) ==
    IF ~in.super THEN StartFailed(NoCalls)
    ELSE CHOOSE out \in
             {StartReturned(in, range) :
              range \in {StartRanged(in, absolute) :
                         absolute \in {StartAbsolute(in, queried) :
                                       queried \in {StartQueried(in)}}}} :
             TRUE

\* ------------------------------------------------------------------------
\* Inputs
\* ------------------------------------------------------------------------

Generations == 1 .. 4

\* the bytes the trackpad sends at each position of a frame
\*  byte 0: zero fingers (0x04, and 0x06 with the right button), one finger
\*          (0x44), two fingers head (0x84) and tail (0x8c), three fingers
\*          (0xc4, also the first byte of the debounce frame)
\*  byte 3: the head (0x02) and tail (0x0c) signatures, and 0x00 (neither)
\*  bytes 1, 2 and 4, 5: X and raw Y; 0xff only continues a debounce frame
FrameBytes(i) ==
    CASE i = 0 -> {4, 6, 68, 132, 140, 196}
      [] i = 1 -> {0}
      [] i = 2 -> {0, 100}
      [] i = 3 -> {0, 2, 12}
      [] i = 4 -> {0}
      [] i = 5 -> {100, 200}
      [] OTHER -> {0}

DebouncePrefix(i) == \A j \in 0 .. (i - 1) : _packetBuffer[j] = debounce_packet[j]

InputBytes ==
    LET i == _packetByteCount
    IN  IF i < PacketBufferSize /\ i > 0 /\ DebouncePrefix(i)
        THEN FrameBytes(i) \cup {debounce_packet[i]}
        ELSE FrameBytes(i)

\* the frames of a contact: X and raw Y of the points a finger visits.  With
\* y_max = 200 the decoded points are (100,100), (132,132), (100,133) and
\* (133,100): every pair is 32 or 33 apart in one axis or both, in either
\* direction.  (0,100) and (100,0) are the malformed samples.
SingleTouchPoints == {<<100, 100>>, <<132, 68>>, <<100, 67>>, <<133, 100>>,
                      <<0, 100>>, <<100, 200>>}
HeadTouchPoints == {<<100, 100>>, <<133, 100>>, <<0, 100>>}
TailTouchPoints == {<<100, 100>>, <<100, 67>>, <<100, 200>>}

Frame(b0, b3, px, rawY) == <<b0, 0, px, b3, 0, rawY>>

\* zero fingers (without and with the right button), three fingers, an
\* unknown frame, the debounce frame, and the one- and two-finger frames
Frames ==
    {Frame(4, 2, 0, 0), Frame(6, 2, 0, 0), Frame(196, 2, 100, 100),
     Frame(68, 0, 100, 100), <<196, 255, 255, 2, 255, 255>>}
    \cup {Frame(68, 2, p[1], p[2]) : p \in SingleTouchPoints}
    \cup {Frame(132, 2, p[1], p[2]) : p \in HeadTouchPoints}
    \cup {Frame(140, 12, p[1], p[2]) : p \in TailTouchPoints}

\* ------------------------------------------------------------------------
\* Specifications: the state after start(), then the interrupts
\* ------------------------------------------------------------------------

\* no control-path call made
NoCall == [in |-> <<>>, op |-> "none"]

\* no register call made
NoResult == [val |-> <<>>, rc |-> <<>>]

\* no step taken yet: nothing classified, emitted or submitted, no history
Unobserved ==
    /\ classified = <<>>
    /\ emitted = <<>>
    /\ bus = <<>>
    /\ result = NoResult
    /\ call = NoCall
    /\ hSince = 0
    /\ hPrevFingers = 0
    /\ hSeq = "idle"
    /\ hStart = [i \in 0 .. 1 |-> NoPoint]
    /\ hFar = FALSE
    /\ hLast = NoPoint
    /\ hBefore = NoContact

\* the frame buffer and gesture state as start() leaves them: the points
\* and the buffer are never assigned and are zero from allocation
Armed ==
    /\ _packetBuffer = [i \in 0 .. (PacketBufferSize - 1) |-> 0]
    /\ _packetByteCount = 0
    /\ last_fingers = 0
    /\ tapToClick = TRUE
    /\ validLastPoint = FALSE
    /\ tapInRange = [i \in Slots |-> TRUE]
    /\ validStartPoint = [i \in Slots |-> FALSE]
    /\ lastPoint = NoPoint
    /\ startPoint = [i \in Slots |-> NoPoint]
    /\ mt0 = NoPoint

\* e_data before detection
ZeroEData ==
    [fw_version |-> 0, hw_version |-> 0, parity |-> [i \in 0 .. 255 |-> 0],
     send_cmd |-> FALSE, paritycheck |-> FALSE, jumpy_cursor |-> FALSE,
     debug |-> 0, reports_pressure |-> FALSE]

\* a firmware version of each generation: 0x010000, 0x020030, 0x050000 and
\* 0x060000
FirmwareOf(g) ==
    CASE g = 1 -> 65536 [] g = 2 -> 131120 [] g = 3 -> 327680 [] OTHER -> 393216

\* detection as a successful probe() leaves it for the generation in
\* hw_version
Claimed ==
    LET fw == FirmwareOf(hw_version)
        etd == elantech_set_properties(
                   [ZeroEData EXCEPT !.fw_version = fw, !.parity = BuiltParity]).etd
    IN  /\ hw_version = etd.hw_version
        /\ fw_version = etd.fw_version
        /\ parity = etd.parity
        /\ send_cmd = etd.send_cmd
        /\ paritycheck = etd.paritycheck
        /\ jumpy_cursor = etd.jumpy_cursor
        /\ debug = etd.debug
        /\ reports_pressure = etd.reports_pressure
        /\ probed = "this"
        /\ Byte = Bytes3(fw \div 65536, (fw \div 256) % 256, fw % 256)

\* start() not called
Unstarted ==
    /\ started = "no"
    /\ _interruptHandlerInstalled = FALSE
    /\ touchPadEnabled = FALSE

\* start() returned true
Attached ==
    /\ Claimed
    /\ started = "true"
    /\ _interruptHandlerInstalled = TRUE
    /\ touchPadEnabled = TRUE

Init ==
    /\ hw_version \in Generations
    /\ pktsize = IF hw_version > 1 THEN 6 ELSE 4
    /\ y_max = 200
    /\ Armed
    /\ Unobserved
    /\ Attached

\* one interrupt: one byte, for every generation; a store outside the
\* buffer leaves any counter (CountsAfterStore)
interruptOccurred ==
    /\ _packetByteCount < MaxCount
    /\ \E data \in InputBytes :
          \E count \in CountsAfterStore(Driver) :
             Becomes(Step(Driver, data, count))
    /\ UNCHANGED <<profile, detection, attachment, result, call>>
    /\ bus' = InterruptRequests

Next == interruptOccurred

Spec == Init /\ [][Next]_vars

\* generation 3, one frame per step: the six interrupts of a frame that
\* starts at a frame boundary (_packetByteCount = 0), with the points of
\* SingleTouchPoints, HeadTouchPoints and TailTouchPoints.  A Debounce or
\* Unknown frame leaves the counter at pktsize: no further frame starts at a
\* boundary, and what the following bytes do is in Spec.
FrameArrives ==
    /\ _packetByteCount = 0
    /\ \E frame \in Frames : Becomes(Feed(Driver, frame))
    /\ UNCHANGED <<profile, detection, attachment, result, call>>
    /\ bus' = InterruptRequests

GestureInit == Init /\ hw_version = 3

GestureNext == FrameArrives

GestureSpec == GestureInit /\ [][GestureNext]_vars

\* generation 3, one frame per step, over the signature bits of bytes 0 and 3:
\* byte 0 takes every value of bits 2-3 with every finger count (and two
\* values with bits 4-5 set), byte 3 values that agree with the head or the
\* tail signature, differ from one in a single masked bit, or differ in an
\* unmasked bit only; the debounce frame and its neighbours that differ in
\* one byte.  The coordinates are fixed at (100, 100).
ClassifierByte0 == {k * 4 + f * 64 : k \in 0 .. 3, f \in 0 .. 3} \cup {52, 63}
ClassifierByte3 == {0, 2, 3, 6, 10, 12, 13, 14, 18, 28, 50, 61, 66, 76, 130, 140, 255}
ClassifierFrames ==
    {Frame(b0, b3, 100, 100) : b0 \in ClassifierByte0, b3 \in ClassifierByte3}
    \cup {<<196, 255, 255, 2, 255, 255>>, <<196, 255, 255, 2, 255, 254>>,
          <<196, 254, 255, 2, 255, 255>>, <<196, 255, 255, 18, 255, 255>>,
          <<192, 255, 255, 2, 255, 255>>, <<204, 255, 255, 12, 255, 255>>}

ClassifierFrameArrives ==
    /\ _packetByteCount = 0
    /\ \E frame \in ClassifierFrames : Becomes(Feed(Driver, frame))
    /\ UNCHANGED <<profile, detection, attachment, result, call>>
    /\ bus' = InterruptRequests

ClassifierNext == ClassifierFrameArrives

ClassifierSpec == GestureInit /\ [][ClassifierNext]_vars

\* generation 3, one frame per step, over the coordinate bytes of a
\* single-finger frame: bytes 1 and 4 with the low nibble 0 or 1 and with
\* the high nibble set (0x11, 0x10), byte 2 0x23 and byte 5 0 or 200, for two
\* ranges, so that raw Y runs below, up to and above y_max; one frame with
\* X = 0.  The zero-finger frame ends a contact.
DecoderRanges == {200, 500}
DecoderFrames ==
    {<<68, b1, 35, 2, b4, b5>> : b1 \in {0, 1, 17}, b4 \in {0, 1, 16}, b5 \in {0, 200}}
    \cup {Frame(68, 2, 0, 100), Frame(4, 2, 0, 0)}

DecoderInit ==
    /\ hw_version = 3
    /\ pktsize = 6
    /\ y_max \in DecoderRanges
    /\ Armed
    /\ Unobserved
    /\ Attached

DecoderFrameArrives ==
    /\ _packetByteCount = 0
    /\ \E frame \in DecoderFrames : Becomes(Feed(Driver, frame))
    /\ UNCHANGED <<profile, detection, attachment, result, call>>
    /\ bus' = InterruptRequests

DecoderNext == DecoderFrameArrives

DecoderSpec == DecoderInit /\ [][DecoderNext]_vars

\* ------------------------------------------------------------------------
\* Specification: detection, from the object init() leaves
\* ------------------------------------------------------------------------

\* replies to the magic knock: the two expected ones and one wrong in each
\* byte
KnockReplies ==
    {Bytes3(60, 3, 200), Bytes3(60, 3, 0), Bytes3(60, 3, 1), Bytes3(60, 0, 200),
     Bytes3(0, 3, 200)}

\* replies to the version query: the body versions 0 .. 6, 0x14 and 0x3c, the
\* middle bytes 0, 3, 6 and 8, and low bytes in and out of the rate table;
\* among them 0x010000, 0x020022, 0x02002f, 0x020030, 0x020600, 0x020800,
\* 0x030000 and 0x050000
VersionReplies ==
    {Bytes3(b0, b1, b2) : b0 \in {0, 1, 2, 3, 4, 5, 6, 20, 60},
                          b1 \in {0, 3, 6, 8},
                          b2 \in {0, 10, 34, 47, 48, 80, 200}}

\* the frame buffer and gesture state of the object after init(): allocated
\* zero-filled, no byte counted
Zeroed ==
    /\ pktsize = 0
    /\ y_max = 0
    /\ _packetBuffer = [i \in 0 .. (PacketBufferSize - 1) |-> 0]
    /\ _packetByteCount = 0
    /\ last_fingers = 0
    /\ tapToClick = FALSE
    /\ validLastPoint = FALSE
    /\ tapInRange = [i \in Slots |-> FALSE]
    /\ validStartPoint = [i \in Slots |-> FALSE]
    /\ lastPoint = NoPoint
    /\ startPoint = [i \in Slots |-> NoPoint]
    /\ mt0 = NoPoint

\* the object after init()
Loaded ==
    /\ Zeroed
    /\ hw_version = 0
    /\ fw_version = ZeroEData.fw_version
    /\ parity = ZeroEData.parity
    /\ send_cmd = ZeroEData.send_cmd
    /\ paritycheck = ZeroEData.paritycheck
    /\ jumpy_cursor = ZeroEData.jumpy_cursor
    /\ debug = ZeroEData.debug
    /\ reports_pressure = ZeroEData.reports_pressure
    /\ probed = "no"
    /\ Byte = Bytes3(0, 0, 0)
    /\ Unstarted

\* e_data takes the fields of the record
Detected(etd) ==
    /\ hw_version' = etd.hw_version
    /\ fw_version' = etd.fw_version
    /\ parity' = etd.parity
    /\ send_cmd' = etd.send_cmd
    /\ paritycheck' = etd.paritycheck
    /\ jumpy_cursor' = etd.jumpy_cursor
    /\ debug' = etd.debug
    /\ reports_pressure' = etd.reports_pressure

probe ==
    /\ probed = "no"
    /\ \E knock \in KnockReplies, reply \in VersionReplies,
          failing \in 0 .. ProbeAllocations :
          LET out == ProbeOutcome(knock, reply, failing)
          IN  /\ probed' = out.returned
              /\ Byte' = out.Byte
              /\ bus' = out.bus
              /\ Detected(out.etd)
    /\ classified' = <<>>
    /\ emitted' = <<>>
    /\ UNCHANGED <<pktsize, y_max, _packetBuffer, _packetByteCount, gesture,
                   history, started, _interruptHandlerInstalled, touchPadEnabled,
                   result, call>>

\* replies to the capabilities query: byte 1 is the trace count of
\* generation 4, 20 or the unusable 1
CapabilityReplies == {Bytes3(0, 20, 10), Bytes3(0, 1, 10)}

\* replies to the read-back of register 0x10: with and without the
\* absolute-mode bit
ReadBackReplies == {Bytes3(22, 22, 0), Bytes3(18, 18, 0)}

\* replies to the firmware-id query: x_max = 150, y_max = 200, and
\* x_max = 16 (below the trace count), y_max = 300 with the fixed-dpi bit
IdReplies == {Bytes3(0, 150, 200), Bytes3(16, 16, 44)}

SampleReply == Bytes3(0, 4, 8)
ResolutionReply == Bytes3(0, 51, 0)

\* the command byte read in each turn of setCommandByte's loop: unchanged
\* at the first test-and-set, or changed once
CommandByteReads == {<<71>>, <<71, 69>>}

\* start() is called after a successful probe; no byte is delivered while
\* it runs
start ==
    /\ probed = "this"
    /\ started = "no"
    /\ \E super \in BOOLEAN, failing \in 0 .. StartAllocations,
          caps \in CapabilityReplies, back \in ReadBackReplies,
          id \in IdReplies, reads \in CommandByteReads :
          \E in \in {[failing |-> failing, back |-> back, caps |-> caps,
                      id |-> id, sample |-> SampleReply, reads |-> reads,
                      res |-> ResolutionReply, super |-> super]} :
          \E out \in {StartOutcome(in)} :
              /\ call' = [in |-> in, op |-> "start"]
              /\ started' = out.returned
              /\ bus' = out.bus
              /\ y_max' = out.y_max
              /\ pktsize' = out.pktsize
              /\ _interruptHandlerInstalled' = out.installed
              /\ touchPadEnabled' = out.enabled
              /\ last_fingers' = IF out.ranged THEN 0 ELSE last_fingers
              /\ tapToClick' = IF out.ranged THEN TRUE ELSE tapToClick
              /\ validLastPoint' = IF out.ranged THEN FALSE ELSE validLastPoint
              /\ tapInRange' = IF out.ranged THEN [i \in Slots |-> TRUE]
                                ELSE tapInRange
              /\ validStartPoint' = IF out.ranged THEN [i \in Slots |-> FALSE]
                                     ELSE validStartPoint
    /\ classified' = <<>>
    /\ emitted' = <<>>
    /\ UNCHANGED <<hw_version, _packetBuffer, _packetByteCount, lastPoint,
                   startPoint, mt0, history, detection, probed, Byte, result>>

\* the frames of a tap: one finger at (100, 100) raw, then none
TapFrames == {Frame(68, 2, 100, 100), Frame(4, 2, 0, 0)}

\* the controller calls the installed interrupt action with each byte of a
\* frame that starts at a frame boundary
FrameDelivered ==
    /\ _interruptHandlerInstalled
    /\ _packetByteCount = 0
    /\ \E frame \in TapFrames : Becomes(Feed(Driver, frame))
    /\ bus' = InterruptRequests
    /\ UNCHANGED <<profile, detection, attachment, result, call>>

DetectInit == Loaded /\ Unobserved

DetectNext == probe \/ start \/ FrameDelivered

DetectSpec == DetectInit /\ [][DetectNext]_vars

\* ------------------------------------------------------------------------
\* Specification: register calls on a detected trackpad
\* ------------------------------------------------------------------------

\* registers on both sides of each limit of the gate, and the ones
\* elantech_set_absolute_mode uses (0x07, 0x10, 0x11, 0x21)
Registers == {6, 7, 16, 17, 18, 21, 31, 32, 33, 38, 39}

\* the values elantech_set_absolute_mode writes for generations 4, 3 and 1
\* (reg_10 and reg_11)
RegisterValues == {1, 11, 22, 143}

\* the firmware-id, firmware-version, capabilities, sample and resolution
\* queries
Queries == {ETP_FW_ID_QUERY, ETP_FW_VERSION_QUERY, ETP_CAPABILITIES_QUERY,
            ETP_SAMPLE_QUERY, ETP_RESOLUTION_QUERY}

\* the most calls of allocateRequest() one elantech_set_absolute_mode makes
\* (generation 2: three writes and the read-back)
AbsoluteModeAllocations == 4

\* replies to a register read, with and without the absolute-mode bit
RegisterReplies == {Bytes3(22, 9, 0), Bytes3(18, 4, 0)}

RegisterInit ==
    /\ hw_version \in Generations
    /\ Zeroed
    /\ Unobserved
    /\ Claimed
    /\ Unstarted

\* the call `op` with the arguments and replies `in` returned `out`
Called(op, in, out) ==
    /\ call' = [in |-> in, op |-> op]
    /\ bus' = out.bus
    /\ result' = [val |-> out.val, rc |-> <<out.rc>>]
    /\ classified' = <<>>
    /\ emitted' = <<>>
    /\ UNCHANGED <<profile, _packetBuffer, _packetByteCount, gesture, history,
                   detection, attachment>>

\* what the three reads of a request hold when it has run: the reply, or
\* the zeroes they were set up with when the request stopped before them
Replied(reply, completed) == IF completed THEN reply ELSE Bytes3(0, 0, 0)

\* the calls of freeRequest() elantech_write_reg makes: it has none, on any
\* path
WriteFrees(reg, request) == 0

\* the calls of freeRequest() elantech_read_reg makes: one, after the reply
\* is copied, when it got a request
ReadFrees(reg, request) == IF InvalidRegister(reg) \/ ~request THEN 0 ELSE 1

\* `failing`: 1 if allocateRequest() returns no request; `completed`:
\* whether the submitted request ran through all of its commands.  n is the
\* number of calls of allocateRequest(), `freed` of freeRequest().
WriteRegister ==
    \E reg \in Registers, val \in RegisterValues, failing \in 0 .. 1,
       completed \in BOOLEAN :
       \E out \in {WriteReg(NoCalls, failing, reg, val)} :
       \E in \in {[n |-> out.n, reg |-> reg, val |-> val, failing |-> failing,
                   completed |-> completed,
                   freed |-> WriteFrees(reg, failing # 1)]} :
          Called("elantech_write_reg", in,
                 [rc |-> out.rc, val |-> <<>>, bus |-> out.bus])

ReadRegister ==
    \E reg \in Registers, reply \in RegisterReplies, failing \in 0 .. 1,
       completed \in BOOLEAN :
       \E out \in {ReadReg(NoCalls, failing, reg, Replied(reply, completed))} :
       \E in \in {[n |-> out.n, reg |-> reg, failing |-> failing,
                   completed |-> completed,
                   freed |-> ReadFrees(reg, failing # 1)]} :
          Called("elantech_read_reg", in, out)

\* send_cmd with each query, by etd->send_cmd
SendCommand ==
    \E c \in Queries, reply \in RegisterReplies, failing \in 0 .. 1,
       completed \in BOOLEAN :
       \E out \in {Query(NoCalls, failing, SendCmd(c, Replied(reply, completed)))} :
       \E in \in {[n |-> out.n, c |-> c, failing |-> failing,
                   completed |-> completed]} :
          Called("send_cmd", in,
                 [rc |-> out.rc, val |-> <<>>, bus |-> out.bus])

\* elantech_set_absolute_mode with each failing allocation
SetAbsoluteMode ==
    \E back \in RegisterReplies, failing \in 0 .. AbsoluteModeAllocations :
       \E out \in {elantech_set_absolute_mode(NoCalls, failing, back)} :
       \E in \in {[n |-> out.n, failing |-> failing, back |-> back]} :
          Called("elantech_set_absolute_mode", in,
                 [rc |-> out.rc, val |-> <<>>, bus |-> out.bus])

\* the command bytes the controller holds while setCommandByte runs
CommandBytes == {69, 71, 101}

\* the byte at each request of one turn, or of two turns: the last
\* test-and-set finds the byte that was read
CommandBytesPresent ==
    {<<a, a>> : a \in CommandBytes}
        \cup {<<a, b, c, c>> : a \in CommandBytes, b \in CommandBytes, c \in CommandBytes}

\* setCommandByte with bits 0x02 or 0x22 to set and 0x20 or none to clear
SetCommandByte ==
    \E setBits \in {2, 34}, clearBits \in {0, 32}, failing \in 0 .. 1,
       present \in CommandBytesPresent :
       \E out \in {IF failing = 1 THEN <<>>
                    ELSE TestAndSetLoop(setBits, clearBits, present)} :
       \E in \in {[n |-> 1, failing |-> failing, setBits |-> setBits,
                    clearBits |-> clearBits, present |-> present]} :
          Called("setCommandByte", in, [rc |-> 0, val |-> <<>>, bus |-> out])

RegisterNext == WriteRegister \/ ReadRegister

RegisterSpec == RegisterInit /\ [][RegisterNext]_vars

\* the queries and the absolute-mode set-up on a detected trackpad
CommandNext == SendCommand \/ SetAbsoluteMode \/ SetCommandByte

CommandSpec == RegisterInit /\ [][CommandNext]_vars

\* ------------------------------------------------------------------------
\* Properties
\* ------------------------------------------------------------------------

\* the frame a log entry records was decoded as a zero-finger frame
Release(c) == c.decoded /\ FingersOf(c.packet) = 0

\* the entries of the last step's log
Entries == {classified[i] : i \in 1 .. Len(classified)}
EntriesAfter == {classified'[i] : i \in 1 .. Len(classified')}

\* C1: after every complete frame of pktsize bytes (hSince is back to 0),
\* whatever the generation and the verdict, the byte counter is 0 again.
C1_CounterResetAfterFrame == hSince = 0 => _packetByteCount = 0

\* C2: a byte that does not complete a frame of pktsize bytes since the last
\* frame boundary classifies nothing, decodes nothing, changes no finger or
\* gesture state and emits no event.
C2_OnlyCompletingByteActs ==
    [][hSince' # 0 => /\ classified' = <<>>
                      /\ emitted' = <<>>
                      /\ UNCHANGED gesture]_vars

\* C3: a zero-finger frame that ends a contact made only of single-finger
\* frames with non-zero coordinates, all within 32 units of the first one,
\* emits one event that carries the left-button bit.
C3_TapSynthesizesLeftClick ==
    \A c \in Entries :
        (Release(c) /\ hBefore.seq = "single" /\ ~hBefore.far)
            => /\ Len(emitted) = 1
               /\ And8(emitted[1].buttons, 1) = 1

C3_Witness ==
    /\ \E c \in Entries : Release(c) /\ ButtonsOf(c.packet) = 0
    /\ hBefore.seq = "single"
    /\ ~hBefore.far
    /\ emitted = <<PointerEvent(0, 0, 1)>>
    /\ startPoint[0] = [x |-> 100, y |-> 100]
    /\ lastPoint = [x |-> 132, y |-> 132]

\* C4: a zero-finger frame that ends a contact with a sample more than 32
\* units from its finger's start point in X or Y emits the packet's own
\* button bits only; a contact whose samples are all within 32 units (32
\* included) still gets its click.
C4_FarContactNoClick ==
    \A c \in Entries :
        Release(c) =>
            /\ hBefore.far => emitted = <<PointerEvent(0, 0, ButtonsOf(c.packet))>>
            /\ (~hBefore.far /\ hBefore.prev \in {1, 2}) =>
                  emitted = <<PointerEvent(0, 0,
                                Or8(ButtonsOf(c.packet),
                                    IF hBefore.prev = 1 THEN 1 ELSE 2))>>

C4_Witness ==
    /\ \E c \in Entries : Release(c) /\ ButtonsOf(c.packet) = 0
    /\ hBefore.far
    /\ hBefore.seq = "single"
    /\ emitted = <<PointerEvent(0, 0, 0)>>
    /\ lastPoint = startPoint[0]
    /\ lastPoint # NoPoint

\* C5: the event of a zero-finger frame carries the packet's own buttons, or
\* these plus the left bit when the previous decoded frame had one finger and
\* tapToClick held, or plus the right bit when it had two and tapToClick held.
C5_ClickOnlyAfterOneOrTwo ==
    [][\A c \in EntriesAfter :
          Release(c) =>
             /\ Len(emitted') = 1
             /\ emitted'[1].dx = 0
             /\ emitted'[1].dy = 0
             /\ LET b == emitted'[1].buttons
                    own == ButtonsOf(c.packet)
                IN  \/ b = own
                    \/ tapToClick /\ hBefore'.prev = 1 /\ b = Or8(own, 1)
                    \/ tapToClick /\ hBefore'.prev = 2 /\ b = Or8(own, 2)]_vars

C5_Witness ==
    /\ \E c \in Entries : Release(c) /\ ButtonsOf(c.packet) = 0
    /\ hBefore.prev = 2
    /\ emitted = <<PointerEvent(0, 0, 2)>>

\* C6: after a zero-finger frame every slot is idle, the last point is
\* invalid and tapToClick is true; a zero-finger frame that follows another
\* one (or start-up) with no frame in between carries no synthesized click.
C6_ReleaseRearms ==
    \A c \in Entries :
        Release(c) =>
            /\ \A i \in Slots : ~validStartPoint[i] /\ tapInRange[i]
            /\ ~validLastPoint
            /\ tapToClick
            /\ hBefore.prev = 0 =>
                  emitted = <<PointerEvent(0, 0, ButtonsOf(c.packet))>>

C6_Witness ==
    /\ \E c \in Entries : Release(c) /\ ButtonsOf(c.packet) = 0
    /\ hBefore.prev = 0
    /\ startPoint[0] # NoPoint
    /\ startPoint[1] # NoPoint
    /\ emitted = <<PointerEvent(0, 0, 0)>>

\* C7: a slot's tap-in-range flag that is false stays false, with tapToClick
\* false, across every step that decodes no zero-finger frame.
C7_DisqualifiedUntilRelease ==
    [][\A i \in Slots :
          (~tapInRange[i] /\ ~\E c \in EntriesAfter : Release(c))
              => /\ ~tapInRange'[i]
                 /\ ~tapToClick
                 /\ ~tapToClick']_vars

C7_Witness ==
    /\ ~tapInRange[0]
    /\ ~tapToClick
    /\ \E c \in Entries : c.decoded /\ FingersOf(c.packet) = 1
    /\ hFar
    /\ lastPoint = startPoint[0]

\* C8: a single-finger frame with non-zero coordinates records its point and
\* emits the difference to the previous valid single-finger point of the
\* contact when there is one (the code's validLastPoint), nothing otherwise;
\* a single-finger frame with a zero coordinate emits nothing.
C8_MotionIsDelta ==
    [][\A c \in EntriesAfter :
          (c.decoded /\ FingersOf(c.packet) = 1) =>
             LET px == DecodeX(c.packet)
                 py == DecodeY(c.packet)
             IN  /\ emitted' # <<>> => validLastPoint
                 /\ IF HasSample(c.packet)
                    THEN /\ lastPoint' = [x |-> px, y |-> py]
                         /\ validLastPoint'
                         /\ emitted' =
                              IF hLast = NoPoint THEN <<>>
                              ELSE <<PointerEvent(px - hLast.x, py - hLast.y,
                                                  ButtonsOf(c.packet))>>
                    ELSE emitted' = <<>>]_vars

C8_Witness ==
    /\ \E c \in Entries : c.decoded /\ FingersOf(c.packet) = 1
    /\ emitted = <<PointerEvent(-32, -32, 0)>>
    /\ lastPoint = [x |-> 100, y |-> 100]

\* C9: only a decoded frame with zero fingers or one finger emits an event;
\* a two-finger frame, Head or Tail, and a three-finger frame emit none.
C9_EventsFromZeroOrOneFinger ==
    /\ emitted # <<>> =>
          \E c \in Entries : c.decoded /\ FingersOf(c.packet) \in {0, 1}
    /\ \A c \in Entries :
          (c.decoded /\ FingersOf(c.packet) \in {2, 3}) => emitted = <<>>

C9_Witness ==
    /\ \E c \in Entries :
          /\ c.decoded
          /\ FingersOf(c.packet) = 3
          /\ ValidCoordinates(DecodeX(c.packet), DecodeY(c.packet))
    /\ validLastPoint
    /\ emitted = <<>>

\* C10: a frame classified Debounce or Unknown emits no event and leaves the
\* last point, the start points, the validity and tap-in-range flags,
\* tapToClick, the two-finger cache and the finger count unchanged.
C10_DroppedFrameNoEffect ==
    [][(\E c \in EntriesAfter : c.type \in {PACKET_DEBOUNCE, PACKET_UNKNOWN})
          => /\ emitted' = <<>>
             /\ UNCHANGED gesture]_vars

C10_Witness ==
    /\ \E c \in Entries : c.type = PACKET_DEBOUNCE
    /\ validLastPoint
    /\ last_fingers = 1
    /\ emitted = <<>>

\* bit i of byte b
Bit(b, i) == (b \div (2 ^ i)) % 2

\* C11: every complete generation-3 frame gets exactly one verdict, fixed by
\* its six bytes: Debounce iff it is c4 ff ff 02 ff ff; else Head iff bits 3-2
\* of byte 0 are 01 and byte 3 has bits 7, 6, 3, 2, 0 clear and bit 1 set;
\* else Tail iff bits 3-2 of byte 0 are 11 and byte 3 has bits 7, 6, 1 clear
\* and bits 3, 2 set; else Unknown.
C11_ClassifierPriority ==
    [][/\ Len(classified') = 1
       /\ \A c \in EntriesAfter :
             LET b0 == c.packet[0]
                 b3 == c.packet[3]
                 debounce == /\ b0 = 196 /\ c.packet[1] = 255 /\ c.packet[2] = 255
                             /\ b3 = 2 /\ c.packet[4] = 255 /\ c.packet[5] = 255
                 head == /\ Bit(b0, 3) = 0 /\ Bit(b0, 2) = 1
                         /\ b3 \div 64 = 0 /\ b3 % 16 = 2
                 tail == /\ Bit(b0, 3) = 1 /\ Bit(b0, 2) = 1
                         /\ b3 \div 64 = 0 /\ (b3 % 16) \div 2 = 6
             IN  c.type = IF debounce THEN PACKET_DEBOUNCE
                          ELSE IF head THEN PACKET_V3_HEAD
                          ELSE IF tail THEN PACKET_V3_TAIL
                          ELSE PACKET_UNKNOWN]_vars

\* the debounce frame, which carries the head signature, was classified
C11_Witness ==
    \E c \in Entries :
        /\ c.type = PACKET_DEBOUNCE
        /\ Bit(c.packet[0], 2) = 1
        /\ Bit(c.packet[0], 3) = 0
        /\ c.packet[3] = 2

\* the frame a log entry records was decoded with n fingers
DecodedWith(c, n) == c.decoded /\ FingersOf(c.packet) = n

\* the per-slot and last-point state, without the finger count
tracking == <<tapToClick, tapInRange, lastPoint, validLastPoint, startPoint,
              validStartPoint, mt0>>

\* C12 as stated: a decoded three-finger frame emits no event and changes no
\* finger or gesture field, the last observed finger count included.
C12_ThreeFingersChangeNothing ==
    [][(\E c \in EntriesAfter : DecodedWith(c, 3))
          => /\ emitted' = <<>>
             /\ UNCHANGED gesture]_vars

\* C12 amended: a decoded three-finger frame emits no event and changes no
\* finger or gesture field except the last observed finger count, which
\* becomes 3.
C12_ThreeFingersOnlyCounted ==
    [][(\E c \in EntriesAfter : DecodedWith(c, 3))
          => /\ emitted' = <<>>
             /\ last_fingers' = 3
             /\ UNCHANGED tracking]_vars

C12_Witness ==
    /\ \E c \in Entries : DecodedWith(c, 3)
    /\ hBefore.prev = 2
    /\ last_fingers = 3
    /\ validLastPoint
    /\ validStartPoint[1]
    /\ emitted = <<>>

\* C13: a decoded two-finger frame leaves the last point, its validity flag
\* and every slot but its own (0 for Head, 1 for Tail) unchanged; only Head
\* writes the two-finger cache; on its own slot a sample with non-zero
\* coordinates latches the start point when the slot has none, and otherwise
\* clears the slot's tap-in-range flag (and tapToClick) when it is more than
\* 32 units from the start point in X or Y.
C13_TwoFingerSlotsIndependent ==
    [][\A c \in EntriesAfter :
          DecodedWith(c, 2) =>
             LET s == IF c.type = PACKET_V3_HEAD THEN 0 ELSE 1
                 p == [x |-> DecodeX(c.packet), y |-> DecodeY(c.packet)]
                 far == \/ Distance(p.x, startPoint[s].x) > ETP_TAPTOCLICK_DIST
                        \/ Distance(p.y, startPoint[s].y) > ETP_TAPTOCLICK_DIST
             IN  /\ UNCHANGED <<lastPoint, validLastPoint>>
                 /\ \A i \in Slots \ {s} :
                       /\ startPoint'[i] = startPoint[i]
                       /\ validStartPoint'[i] = validStartPoint[i]
                       /\ tapInRange'[i] = tapInRange[i]
                 /\ IF s = 0 THEN mt0' = p ELSE mt0' = mt0
                 /\ IF ~HasSample(c.packet)
                    THEN /\ startPoint'[s] = startPoint[s]
                         /\ validStartPoint'[s] = validStartPoint[s]
                         /\ tapInRange'[s] = tapInRange[s]
                         /\ tapToClick' = tapToClick
                    ELSE IF ~validStartPoint[s]
                    THEN /\ startPoint'[s] = p
                         /\ validStartPoint'[s]
                         /\ tapInRange'[s] = tapInRange[s]
                         /\ tapToClick' = tapToClick
                    ELSE /\ startPoint'[s] = startPoint[s]
                         /\ validStartPoint'[s]
                         /\ tapInRange'[s] = (tapInRange[s] /\ ~far)
                         /\ tapToClick' = (tapToClick /\ tapInRange'[s])]_vars

\* a Tail frame took slot 1 out of range while slot 0, with another start
\* point, stayed in range
C13_Witness ==
    /\ \E c \in Entries : DecodedWith(c, 2) /\ c.type = PACKET_V3_TAIL
    /\ validStartPoint[0]
    /\ validStartPoint[1]
    /\ startPoint[0] # startPoint[1]
    /\ tapInRange[0]
    /\ ~tapInRange[1]
    /\ ~tapToClick

\* C14: a decoded one- or two-finger frame whose X or Y is zero emits no
\* event and changes no position, cache, start point, validity flag or tap
\* flag.
C14_MalformedFrameNoUpdate ==
    [][\A c \in EntriesAfter :
          ((DecodedWith(c, 1) \/ DecodedWith(c, 2)) /\ ~HasSample(c.packet))
              => /\ emitted' = <<>>
                 /\ UNCHANGED tracking]_vars

\* C15: for a decoded single-finger frame, with X the low nibble of byte 1
\* times 256 plus byte 2 and Y y_max minus (the low nibble of byte 4 times
\* 256 plus byte 5): when both are non-zero the last point becomes (X, Y) and
\* the event, if any, is the difference to the previous last point;
\* otherwise the last point stays and nothing is emitted.
C15_SingleFingerCoordinates ==
    [][\A c \in EntriesAfter :
          DecodedWith(c, 1) =>
             LET X == (c.packet[1] % 16) * 256 + c.packet[2]
                 Y == y_max - ((c.packet[4] % 16) * 256 + c.packet[5])
             IN  IF X # 0 /\ Y # 0
                 THEN /\ lastPoint' = [x |-> X, y |-> Y]
                      /\ validLastPoint =>
                            /\ Len(emitted') = 1
                            /\ emitted'[1].dx = X - lastPoint.x
                            /\ emitted'[1].dy = Y - lastPoint.y
                 ELSE /\ lastPoint' = lastPoint
                      /\ emitted' = <<>>]_vars

\* byte 1 = 0x01, byte 2 = 0x23, bytes 4 and 5 zero, y_max = 500
C15_Witness ==
    /\ y_max = 500
    /\ \E c \in Entries :
          /\ DecodedWith(c, 1)
          /\ c.packet[1] = 1 /\ c.packet[2] = 35
          /\ c.packet[4] = 0 /\ c.packet[5] = 0
    /\ lastPoint = [x |-> 291, y |-> 500]

\* the number of 1 bits of a byte
RECURSIVE Popcount(_)
Popcount(i) == IF i = 0 THEN 0 ELSE (i % 2) + Popcount(i \div 2)

\* C16 as stated: the parity table that detection built has
\* parity[i] = popcount(i) mod 2 for every i in 0 .. 255.
C16_ParityIsPopcount ==
    probed = "this" => \A i \in 0 .. 255 : parity[i] = Popcount(i) % 2

\* C16 amended: a successful detection has built the table, and a table
\* that was built has parity[i] = 1 - popcount(i) mod 2 for every i in
\* 0 .. 255 (1 for an even number of 1 bits, parity[0] = 1).
C16_ParityIsComplement ==
    /\ probed = "this" => parity # ZeroEData.parity
    /\ parity # ZeroEData.parity =>
          \A i \in 0 .. 255 : parity[i] = 1 - (Popcount(i) % 2)

C16_Witness ==
    /\ probed = "this"
    /\ parity[0] = 1
    /\ parity[1] = 0
    /\ parity[6] = 1
    /\ parity[255] = 1

\* C17: a probe() that records a firmware version records the three reply
\* bytes as a 24-bit number and maps it to a generation: below 0x020030 or
\* equal to 0x020600 gives 1; otherwise bits 19-16 give 2 for 2 and 4, 3 for
\* 5, 4 for 6; any other value makes probe() fail and leaves the generation
\* unset.  A successful probe() leaves a generation in 1 .. 4.
C17_GenerationOfFirmware ==
    [][(probed = "no" /\ probed' # "no" /\ fw_version' # 0) =>
          LET fw == fw_version'
              indicator == (fw \div 65536) % 16
              generation ==
                  IF fw < 131120 \/ fw = 132608 THEN 1
                  ELSE IF indicator \in {2, 4} THEN 2
                  ELSE IF indicator = 5 THEN 3
                  ELSE IF indicator = 6 THEN 4
                  ELSE 0
          IN  /\ fw = Byte'[0] * 65536 + Byte'[1] * 256 + Byte'[2]
              /\ IF generation = 0
                 THEN probed' = "null" /\ hw_version' = hw_version
                 ELSE probed' = "this" /\ hw_version' = generation
              /\ probed' = "this" => hw_version' \in 1 .. 4]_vars

\* version 0x020030 gave generation 2
C17_Witness ==
    /\ probed = "this"
    /\ fw_version = 131120
    /\ hw_version = 2
    /\ Byte = Bytes3(2, 0, 48)

\* C19: when the version query was answered, probe() goes on to record the
\* firmware version exactly when the reply passes the signature test: byte 0
\* non-zero, and byte 1 zero or byte 2 none of 200, 100, 80, 60, 40, 20, 10.
C19_SignatureRule ==
    [][(probed = "no" /\ probed' # "no" /\ Len(bus') = 2) =>
          LET valid == /\ Byte'[0] # 0
                       /\ \/ Byte'[1] = 0
                          \/ Byte'[2] \notin {200, 100, 80, 60, 40, 20, 10}
          IN  /\ fw_version' # 0 <=> valid
              /\ ~valid => probed' = "null"]_vars

\* the reply 3c 03 50 was rejected
C19_Witness ==
    /\ probed = "null"
    /\ Len(bus) = 2
    /\ Byte = Bytes3(60, 3, 80)
    /\ fw_version = 0

\* entry i of the request sends the byte b
SendsByte(request, i, b) ==
    /\ i <= Len(request)
    /\ request[i].command = "kPS2C_SendMouseCommandAndCompareAck"
    /\ ~request[i].kDP
    /\ request[i].inOrOut = b

\* entry i of the request sends the port driver's command `name`
SendsCommand(request, i, name) ==
    /\ i <= Len(request)
    /\ request[i].kDP
    /\ request[i].inOrOut = name

\* the request opens with 0xf8, opcode, 0xf8, register, and uses no
\* set-resolution command
CustomEncoded(request) ==
    /\ SendsByte(request, 1, 248)
    /\ SendsByte(request, 3, 248)
    /\ \A i \in 1 .. Len(request) : ~SendsCommand(request, i, "kDP_SetMouseResolution")

\* the request opens with a scaling command and four set-resolution
\* commands with two-bit arguments, and sends no 0xf8 byte
SlicedEncoded(request) ==
    /\ SendsCommand(request, 1, "kDP_SetMouseScaling1To1")
    /\ \A i \in {2, 4, 6, 8} : SendsCommand(request, i, "kDP_SetMouseResolution")
    /\ \A i \in {3, 5, 7, 9} : \E d \in 0 .. 3 : SendsByte(request, i, d)
    /\ \A i \in 1 .. Len(request) : ~SendsByte(request, i, 248)

\* C18 as stated: a register write or read that submits a request uses the
\* custom-command encoding on generations 3 and 4 and the sliced encoding
\* on generations 1 and 2.
C18_CustomFromGeneration3 ==
    \A i \in 1 .. Len(bus) :
        result.rc = <<0>> =>
            IF hw_version >= 3 THEN CustomEncoded(bus[i]) ELSE SlicedEncoded(bus[i])

\* C18 amended: a register write or read that submits a request uses the
\* custom-command encoding on generations 2, 3 and 4 and the sliced encoding
\* on generation 1.
C18_CustomFromGeneration2 ==
    /\ result.rc = <<0>> => Len(bus) = 1
    /\ \A i \in 1 .. Len(bus) :
          result.rc = <<0>> =>
              IF hw_version >= 2 THEN CustomEncoded(bus[i]) ELSE SlicedEncoded(bus[i])

\* generation 2 wrote register 0x10 with 0xf8 0x11 0xf8 0x10 0xf8 val
C18_Witness ==
    /\ hw_version = 2
    /\ result = [val |-> <<>>, rc |-> <<0>>]
    /\ Len(bus) = 1
    /\ Len(bus[1]) = 7
    /\ SendsByte(bus[1], 1, 248)
    /\ SendsByte(bus[1], 2, 17)
    /\ SendsByte(bus[1], 4, 16)
    /\ SendsByte(bus[1], 5, 248)

\* the reply to the magic knock, as the knock request of the last step
\* read it
KnockRead == Bytes3(bus[1][7].inOrOut, bus[1][8].inOrOut, bus[1][9].inOrOut)

\* the knock reply is not 0x3c, 0x03, then 0xc8 or 0x00
BadKnock == ~(KnockRead[0] = 60 /\ KnockRead[1] = 3 /\ KnockRead[2] \in {200, 0})

\* the firmware version in Byte[] has an indicator outside 2, 4, 5, 6 and
\* is not one of the early versions of generation 1
UnknownGeneration ==
    LET fw == Byte[0] * 65536 + Byte[1] * 256 + Byte[2]
    IN  /\ ~(fw < 131120 \/ fw = 132608)
        /\ Byte[0] % 16 \notin {2, 4, 5, 6}

\* C20: a probe() that gets a wrong knock reply, an invalid signature or an
\* unknown generation indicator returns no driver; and once probe() has
\* returned none, start() has not run, the interrupt handler is not
\* installed, the touchpad is not enabled and no step emits a pointer event.
C20_FailedDetectionStaysSilent ==
    [][/\ (/\ probed = "no"
           /\ probed' # "no"
           /\ Len(bus') >= 1
           /\ (BadKnock' \/ ~elantech_is_signature_valid(Byte')
                         \/ UnknownGeneration'))
          => probed' = "null"
       /\ probed' = "null"
          => /\ started' = "no"
             /\ ~_interruptHandlerInstalled'
             /\ ~touchPadEnabled'
             /\ emitted' = <<>>]_vars

\* probe() has just rejected firmware 0x030000: the knock reply and the
\* signature are good, the indicator 3 is unknown
C20_Witness ==
    /\ probed = "null"
    /\ Len(bus) = 2
    /\ ~BadKnock
    /\ Byte = Bytes3(3, 0, 0)
    /\ elantech_is_signature_valid(Byte)
    /\ UnknownGeneration
    /\ started = "no"

\* C21: after a probe() that returned no driver, every field detection
\* writes (firmware version, generation, parity table, flags) is as init()
\* left it.
C21_NoPartialState ==
    probed = "null" =>
        /\ fw_version = ZeroEData.fw_version
        /\ hw_version = ZeroEData.hw_version
        /\ parity = ZeroEData.parity
        /\ send_cmd = ZeroEData.send_cmd
        /\ paritycheck = ZeroEData.paritycheck
        /\ jumpy_cursor = ZeroEData.jumpy_cursor
        /\ debug = ZeroEData.debug
        /\ reports_pressure = ZeroEData.reports_pressure

\* the last step was a call of elantech_write_reg or elantech_read_reg
RegisterCall == call.op \in {"elantech_write_reg", "elantech_read_reg"}

\* C22: a register write or read of register 0x06 or 0x15 returns -1
\* without a call of allocateRequest() and without a request submitted; a
\* write of register 0x10 that gets its request returns 0 and submits one
\* request: sliced commands on generation 1, and on generations 2 to 4
\* 0xf8-prefixed bytes that carry the register and the value.
C22_GateBeforeAnyBusTraffic ==
    /\ (RegisterCall /\ call.in.reg \in {6, 21})
          => /\ result.rc = <<-1>>
             /\ call.in.n = 0
             /\ bus = <<>>
    /\ (call.op = "elantech_write_reg" /\ call.in.reg = 16 /\ call.in.failing = 0)
          => /\ result.rc = <<0>>
             /\ call.in.n = 1
             /\ Len(bus) = 1
             /\ IF hw_version = 1
                THEN SlicedEncoded(bus[1]) /\ Len(bus[1]) = 28
                ELSE /\ CustomEncoded(bus[1])
                     /\ SendsByte(bus[1], 4, 16)
                     /\ SendsByte(bus[1], IF hw_version = 4 THEN 8 ELSE 6,
                                  call.in.val)

\* a write of register 0x06 was rejected
C22_Witness ==
    /\ call.op = "elantech_write_reg"
    /\ call.in.reg = 6
    /\ call.in.failing = 0
    /\ result.rc = <<-1>>
    /\ bus = <<>>

\* the gate rejected the call: it returned -1 before it called
\* allocateRequest()
Rejected == result.rc = <<-1>> /\ call.in.n = 0

\* C23 as stated: a register call is rejected exactly for registers below
\* 0x07, above 0x26, or from 0x11 to 0x20 with both limits.
C23_RejectsClosedRange ==
    RegisterCall =>
        (Rejected <=> \/ call.in.reg < 7
                      \/ call.in.reg > 38
                      \/ (call.in.reg >= 17 /\ call.in.reg <= 32))

\* C23 amended: a register call is rejected exactly for registers below
\* 0x07, above 0x26, or strictly between 0x11 and 0x20; 0x07, 0x10, 0x11 and
\* 0x21, which the start-up sequence writes, are accepted.
C23_RejectsOpenRange ==
    RegisterCall =>
        /\ Rejected <=> \/ call.in.reg < 7
                        \/ call.in.reg > 38
                        \/ (call.in.reg > 17 /\ call.in.reg < 32)
        /\ call.in.reg \in {7, 16, 17, 33} => ~Rejected

\* a write of register 0x11 was accepted
C23_Witness ==
    /\ call.op = "elantech_write_reg"
    /\ call.in.reg = 17
    /\ call.in.failing = 0
    /\ result.rc = <<0>>
    /\ Len(bus) = 1

\* entry i of the request is a read of the data port
ReadsPort(request, i) ==
    i >= 1 /\ i <= Len(request) /\ request[i].command = "kPS2C_ReadDataPort"

\* C24: a register read that returns 0 has submitted one request whose last
\* three commands are reads of the data port, and stores the second of the
\* three bytes read on generation 4, the first on every other generation.
C24_ReadReplyByte ==
    (call.op = "elantech_read_reg" /\ result.rc = <<0>>) =>
        /\ Len(bus) = 1
        /\ LET request == bus[1]
               last == Len(request)
           IN  /\ \A i \in (last - 2) .. last : ReadsPort(request, i)
               /\ result.val = IF hw_version = 4
                                THEN <<request[last - 1].inOrOut>>
                                ELSE <<request[last - 2].inOrOut>>

\* generation 4 read 0x16, 0x09, 0x00 and stored 0x09
C24_Witness ==
    /\ call.op = "elantech_read_reg"
    /\ hw_version = 4
    /\ call.in.reg = 16
    /\ result = [val |-> <<9>>, rc |-> <<0>>]
    /\ Len(bus) = 1
    /\ ReadsPort(bus[1], 6)
    /\ bus[1][6].inOrOut = 22
    /\ bus[1][7].inOrOut = 9
    /\ bus[1][8].inOrOut = 0

\* the two-bit group k of an opcode, k = 0 for bits 7-6 up to k = 3 for
\* bits 1-0
Group(opcode, k) == (opcode \div (4 ^ (3 - k))) % 4

\* entries at+1 .. at+12 of the request: for each group a scaling command,
\* a set-resolution command and the group's value
ScalingPerGroupAt(request, at, opcode) ==
    \A k \in 0 .. 3 :
        /\ SendsCommand(request, at + 1 + 3 * k, "kDP_SetMouseScaling1To1")
        /\ SendsCommand(request, at + 2 + 3 * k, "kDP_SetMouseResolution")
        /\ SendsByte(request, at + 3 + 3 * k, Group(opcode, k))

\* entries at+1 .. at+9 of the request: one scaling command, then for each
\* group a set-resolution command and the group's value
ScalingOnceAt(request, at, opcode) ==
    /\ SendsCommand(request, at + 1, "kDP_SetMouseScaling1To1")
    /\ \A k \in 0 .. 3 :
           /\ SendsCommand(request, at + 2 + 2 * k, "kDP_SetMouseResolution")
           /\ SendsByte(request, at + 3 + 2 * k, Group(opcode, k))

\* a generation 1 register call that submitted its request
SlicedCall ==
    /\ call.op \in {"elantech_write_reg", "elantech_read_reg"}
    /\ hw_version = 1
    /\ result.rc = <<0>>
    /\ Len(bus) = 1

\* the opcode a generation 1 register call slices first
SlicedOpcode ==
    IF call.op = "elantech_write_reg" THEN ETP_REGISTER_WRITE ELSE ETP_REGISTER_READ

CustomCall ==
    /\ call.op \in {"elantech_write_reg", "elantech_read_reg"}
    /\ hw_version >= 2
    /\ result.rc = <<0>>
    /\ Len(bus) = 1

\* the request ends with the information query and three reads of the data
\* port
QueryTerminated(request) ==
    /\ SendsCommand(request, Len(request) - 3, "kDP_GetMouseInformation")
    /\ \A i \in (Len(request) - 2) .. Len(request) : ReadsPort(request, i)

\* the request opens with 0xf8, a sub-opcode of the three, 0xf8 and the
\* register
CustomOpened(request, reg) ==
    /\ SendsByte(request, 1, ETP_PS2_CUSTOM_COMMAND)
    /\ \E op \in {ETP_REGISTER_READ, ETP_REGISTER_WRITE, ETP_REGISTER_READWRITE} :
           SendsByte(request, 2, op)
    /\ SendsByte(request, 3, ETP_PS2_CUSTOM_COMMAND)
    /\ SendsByte(request, 4, reg)

\* C26 as stated: every register read and write of generations 2 to 4
\* opens with 0xf8, a sub-opcode, 0xf8 and the register, and ends with the
\* information query followed by three reads of the data port.
C26_EveryOperationQueryTerminated ==
    CustomCall =>
        /\ CustomOpened(bus[1], call.in.reg)
        /\ QueryTerminated(bus[1])

\* the sub-opcode a generation uses: 0x10 and 0x11 on generation 2, 0x00 on
\* generations 3 and 4
SubOpcode ==
    IF hw_version = 2
    THEN IF call.op = "elantech_write_reg" THEN ETP_REGISTER_WRITE ELSE ETP_REGISTER_READ
    ELSE ETP_REGISTER_READWRITE

\* C26 amended: every register read and write of generations 2 to 4 opens
\* with 0xf8, the generation's sub-opcode, 0xf8 and the register.  A read
\* then ends with the information query and three reads of the data port.
\* A write continues with 0xf8 and the value (generation 4 sends 0xf8 0x00
\* first) and ends with a scaling command, and reads nothing.
C26_ReadsQueryTerminated ==
    CustomCall =>
        LET request == bus[1]
        IN  /\ CustomOpened(request, call.in.reg)
            /\ SendsByte(request, 2, SubOpcode)
            /\ IF call.op = "elantech_read_reg"
               THEN Len(request) = 8 /\ QueryTerminated(request)
               ELSE /\ Len(request) = IF hw_version = 4 THEN 9 ELSE 7
                    /\ hw_version = 4 =>
                           /\ SendsByte(request, 5, ETP_PS2_CUSTOM_COMMAND)
                           /\ SendsByte(request, 6, ETP_REGISTER_READWRITE)
                    /\ SendsByte(request, Len(request) - 2, ETP_PS2_CUSTOM_COMMAND)
                    /\ SendsByte(request, Len(request) - 1, call.in.val)
                    /\ SendsCommand(request, Len(request), "kDP_SetMouseScaling1To1")
                    /\ \A i \in 1 .. Len(request) : ~ReadsPort(request, i)

\* generation 4 wrote 0x8f to register 0x10 in nine commands, the last a
\* scaling command
C26_Witness ==
    /\ CustomCall
    /\ call.op = "elantech_write_reg"
    /\ hw_version = 4
    /\ call.in.reg = 16
    /\ call.in.val = 143
    /\ Len(bus[1]) = 9
    /\ SendsByte(bus[1], 8, 143)
    /\ SendsCommand(bus[1], 9, "kDP_SetMouseScaling1To1")

\* C27: a register write or read whose request did not run to completion
\* returns a negative result; it returns 0 only when the request ran to
\* completion.
C27_FailedRequestReturnsNegative ==
    (call.op \in {"elantech_write_reg", "elantech_read_reg"} /\ result.rc = <<0>>) =>
        call.in.completed

\* C28: a step that submits a bus request is a step of probe or of start;
\* the delivery of input bytes to interruptOccurred submits none.
C28_OnlyControlPathSubmits ==
    [][bus' # <<>> => (probed' # probed \/ started' # started)]_vars

\* start submitted its requests and installed the handler; a frame was then
\* delivered and classified, and that step submitted nothing
C28_Witness ==
    /\ started = "true"
    /\ call.op = "start"
    /\ classified # <<>>
    /\ bus = <<>>

\* generation 4 rejects the trace count of the capabilities against the
\* x_max of the firmware-id reply
BadTraces ==
    LET x == (call.in.id[0] % 16) * 256 + call.in.id[1]
    IN  call.in.caps[1] < 2 \/ call.in.caps[1] > x

\* start() reached elantech_set_range and it returned -1: its firmware-id
\* query, the fourth request of generation 3 and the third of generation
\* 4, got no request, or generation 4 rejected the trace count
RangeQueryFailed ==
    /\ call.op = "start"
    /\ call.in.super
    /\ \/ hw_version = 3 /\ call.in.failing = 4
       \/ hw_version = 4 /\ call.in.failing = 3
       \/ hw_version = 4 /\ call.in.failing \notin 1 .. 3 /\ BadTraces

\* start() of generation 4 passed the range query and its resolution
\* query, the fourth request, got no request
ResolutionQueryFailed ==
    /\ call.op = "start"
    /\ call.in.super
    /\ hw_version = 4
    /\ call.in.failing = 4
    /\ ~BadTraces

\* C29: when the range query fails, start returns false with no interrupt
\* handler installed and the touchpad not enabled; when only the resolution
\* query of generation 4 fails, start returns true with the handler
\* installed and the touchpad enabled.
C29_RangeFatalResolutionRecoverable ==
    /\ RangeQueryFailed =>
           started = "false" /\ ~_interruptHandlerInstalled /\ ~touchPadEnabled
    /\ ResolutionQueryFailed =>
           started = "true" /\ _interruptHandlerInstalled /\ touchPadEnabled

\* generation 4 started although no resolution query was submitted: the
\* last request enables the trackpad
C29_Witness ==
    /\ ResolutionQueryFailed
    /\ started = "true"
    /\ touchPadEnabled
    /\ \A i \in 1 .. Len(bus) : ~SendsByte(bus[i], 2, ETP_RESOLUTION_QUERY)
    /\ SendsCommand(bus[Len(bus)], 1, "kDP_Enable")

\* generation 3 got no request for the firmware-id query and did not start
C29_WitnessFatal ==
    /\ RangeQueryFailed
    /\ hw_version = 3
    /\ started = "false"
    /\ Len(bus) = 3

\* the request is a register read: it ends with a read of the data port
IsRead(request) == ReadsPort(request, Len(request))

\* the register reads among the requests of the last call
ReadBacks == {i \in 1 .. Len(bus) : IsRead(bus[i])}

\* the register writes a generation makes to enter absolute mode
ModeWrites == CASE hw_version = 1 -> 2 [] hw_version = 2 -> 3 [] OTHER -> 1

\* the value read back has the absolute-mode bit 0x04
AbsoluteBit == (call.in.back[0] \div 4) % 2 = 1

\* C30: elantech_set_absolute_mode on generations 1 to 3 reads a register
\* back at most once, as its last request after all the generation's
\* writes, and does so whenever the writes succeeded and the read gets a
\* request; generation 1 returns -1 when the value read back lacks bit
\* 0x04; generation 4 reads nothing back; the call returns 0 only if every
\* write was submitted and, on generations 1 to 3, the read-back was made
\* and, on generation 1, had the bit.
C30_ReadBackAfterWrites ==
    call.op = "elantech_set_absolute_mode" =>
        LET written == Len(bus) - Cardinality(ReadBacks)
        IN  /\ hw_version = 4 => ReadBacks = {} /\ call.in.n = 1
            /\ hw_version \in 1 .. 3 =>
                   /\ Cardinality(ReadBacks) <= 1
                   /\ ReadBacks # {} =>
                          /\ ReadBacks = {Len(bus)}
                          /\ written = ModeWrites
                          /\ IF hw_version = 1
                             THEN ScalingOnceAt(bus[Len(bus)], 9, 16)
                             ELSE CustomOpened(bus[Len(bus)], 16)
                   /\ written = ModeWrites => call.in.n = ModeWrites + 1
                   /\ (written = ModeWrites /\ call.in.failing # ModeWrites + 1) =>
                          ReadBacks # {}
                   /\ written < ModeWrites => call.in.n <= ModeWrites
            /\ (hw_version = 1 /\ ReadBacks # {} /\ ~AbsoluteBit) => result.rc = <<-1>>
            /\ result.rc = <<0>> =>
                   /\ written = ModeWrites
                   /\ hw_version \in 1 .. 3 => ReadBacks # {}
                   /\ hw_version = 1 => AbsoluteBit
            /\ result.rc = <<-1>> =>
                   \/ call.in.failing \in 1 .. call.in.n
                   \/ hw_version = 1 /\ ~AbsoluteBit

\* generation 1 wrote registers 0x10 and 0x11, read 0x12 back and returned -1
C30_Witness ==
    /\ call.op = "elantech_set_absolute_mode"
    /\ hw_version = 1
    /\ Len(bus) = 3
    /\ ReadBacks = {3}
    /\ call.in.back[0] = 18
    /\ call.in.failing = 0
    /\ result.rc = <<-1>>

\* bit i of (old | setBits) & ~clearBits
NewBit(old, setBits, clearBits, i) ==
    IF Bit(clearBits, i) = 1 THEN 0
    ELSE IF Bit(setBits, i) = 1 THEN 1 ELSE Bit(old, i)

\* the turn whose test-and-set first finds the byte that was read
FirstMatch ==
    CHOOSE k \in 1 .. (Len(call.in.present) \div 2) :
        /\ call.in.present[2 * k] = call.in.present[2 * k - 1]
        /\ \A j \in 1 .. (k - 1) :
               call.in.present[2 * j] # call.in.present[2 * j - 1]

\* C31: setCommandByte with a request submits a read and a test-and-set per
\* turn and returns after the first turn whose test-and-set finds the byte
\* that was read; that request compares with the byte present when it runs
\* and writes (present | setBits) & ~clearBits; every earlier test-and-set
\* compares with a byte that is no longer present.
C31_TestAndSet ==
    (call.op = "setCommandByte" /\ call.in.failing = 0) =>
        /\ Len(bus) = 2 * FirstMatch
        /\ \A k \in 1 .. FirstMatch :
               /\ bus[2 * k - 1][2] = ReadDataPort(call.in.present[2 * k - 1])
               /\ bus[2 * k][2].command = "kPS2C_ReadDataPortAndCompare"
               /\ bus[2 * k][2].inOrOut = call.in.present[2 * k - 1]
               /\ bus[2 * k][4].command = "kPS2C_WriteDataPort"
               /\ (bus[2 * k][2].inOrOut = call.in.present[2 * k]) <=> (k = FirstMatch)
        /\ \A i \in 0 .. 7 :
               Bit(bus[Len(bus)][4].inOrOut, i)
                   = NewBit(call.in.present[2 * FirstMatch], call.in.setBits,
                            call.in.clearBits, i)

\* the byte changed from 0x47 to 0x65 after the first read: the second turn
\* read 0x65 and wrote 0x47 for it (0x22 set, 0x20 cleared)
C31_Witness ==
    /\ call.op = "setCommandByte"
    /\ call.in.failing = 0
    /\ call.in.present = <<71, 101, 101, 101>>
    /\ call.in.setBits = 34
    /\ call.in.clearBits = 32
    /\ Len(bus) = 4
    /\ bus[2][2].inOrOut = 71
    /\ bus[4][2].inOrOut = 101
    /\ bus[4][4].inOrOut = 71

\* C32: in every state the index at which interruptOccurred stores the next
\* byte, _packetByteCount, is below the six bytes of _packetBuffer, and the
\* counter does not exceed pktsize.
C32_StoreIndexInBuffer ==
    /\ _packetByteCount < PacketBufferSize
    /\ _packetByteCount <= pktsize

\* C33: on generation 3 the sixth byte of every frame of the input stream
\* (hSince is back to 0), also of a frame that follows a dropped one, has
\* the frame classified, and a frame classified Head or Tail is decoded.
C33_EveryFrameClassified ==
    [][(hw_version = 3 /\ hSince' = 0) =>
           /\ Len(classified') = 1
           /\ \A c \in EntriesAfter :
                  c.type \in {PACKET_V3_HEAD, PACKET_V3_TAIL} => c.decoded]_vars

\* C34: when the event of a zero-finger frame carries a button bit that the
\* packet does not, a slot held a valid start point before that frame.
C34_ClickNeedsStartPoint ==
    [][(\E c \in EntriesAfter :
           /\ Release(c)
           /\ Len(emitted') = 1
           /\ emitted'[1].buttons # ButtonsOf(c.packet))
          => \E i \in Slots : validStartPoint[i]]_vars

\* C35: after start-up and after every decoded frame, tapToClick is true
\* exactly when the tap-in-range flag of every slot is true, and a slot
\* whose tap-in-range flag is false has a valid start point.
C35_TapFlagsAgree ==
    /\ tapToClick <=> \A i \in Slots : tapInRange[i]
    /\ \A i \in Slots : ~tapInRange[i] => validStartPoint[i]

\* the second finger left the radius of its start point: slot 1 is out of
\* range, slot 0 is not, and tapToClick is false
C35_Witness ==
    /\ ~tapToClick
    /\ tapInRange[0]
    /\ ~tapInRange[1]
    /\ validStartPoint[1]
    /\ \E c \in Entries : c.decoded /\ c.type = PACKET_V3_TAIL

\* the requests the last call got from allocateRequest()
Obtained ==
    call.in.n - (IF call.in.failing \in 1 .. call.in.n THEN 1 ELSE 0)

\* C36: a register write or read has called freeRequest() once for every
\* request it got from allocateRequest() when it returns.
C36_EveryRequestFreed ==
    call.op \in {"elantech_write_reg", "elantech_read_reg"} =>
        call.in.freed = Obtained

\* the requests start() needs before line 529 whatever the firmware: the
\* capabilities query, the generation's register writes, the read-back of
\* generations 1 to 3 and the firmware-id query of generations 3 and 4
RequiredRequests ==
    CASE hw_version = 1 -> 4 [] hw_version = 2 -> 5 [] hw_version = 3 -> 4
      [] OTHER -> 3

\* the gesture state start() sets at lines 534-540
GestureInitialised ==
    /\ last_fingers = 0
    /\ tapToClick
    /\ ~validLastPoint
    /\ \A i \in Slots : tapInRange[i] /\ ~validStartPoint[i]

C38_DecodedYInRange ==
    \A c \in Entries :
        (c.decoded /\ FingersOf(c.packet) \in {1, 2}) =>
            /\ DecodeY(c.packet) >= 0
            /\ DecodeY(c.packet) <= y_max

====
